---- MODULE Spec2Model ----
(***************************************************************************)
(* A model of the Grape Kademlia DHT simulator (src/Grape): the event      *)
(* queue, the simulation clock, the simulator's main loop and network      *)
(* model, the per-node protocol state machine and the K-bucket routing     *)
(* table.                                                                  *)
(*                                                                         *)
(* Byte strings (node ids, file ids, addresses) are sequences of bytes     *)
(* (naturals in 0..255); a hex string is a sequence of hex digits          *)
(* (naturals in 0..15).  Python's None is modelled per field: the empty    *)
(* byte string for an absent id, NoTime for an absent time.                *)
(*                                                                         *)
(* Spec has two kinds of behaviour, told apart by pc in the initial state: *)
(*   pc = "main"   the simulator: the scenario driver of main.py followed  *)
(*                 by DHTSimulator.run();                                  *)
(*   pc = "table"  one RoutingTable driven by arbitrary update /           *)
(*                 remove_node / find_closest_nodes calls, as the unit     *)
(*                 tests of tests/test_routing_table_bak.py drive it.      *)
(***************************************************************************)
EXTENDS Integers, Sequences, FiniteSets, TLC

\* ------------------------------------------------------------------------
\* Bounds of the model and configuration values
\* ------------------------------------------------------------------------

\* dht.id_bits: ids are one byte long
IdBits == 8

\* largest k_value the routing table under test is instantiated with, and
\* largest count its find_closest_nodes is called with
MaxK == 2

\* ------------------------------------------------------------------------
\* Generic helpers on sequences
\* ------------------------------------------------------------------------

Range(s) == {s[i] : i \in 1..Len(s)}

RemoveAt(s, i) == SubSeq(s, 1, i - 1) \o SubSeq(s, i + 1, Len(s))

\* the Python slice s[:n]
Take(s, n) ==
    LET stop == IF n < 0 THEN Len(s) + n ELSE n
    IN SubSeq(s, 1, IF stop < 0 THEN 0 ELSE IF stop > Len(s) THEN Len(s) ELSE stop)

RECURSIVE Flatten(_)
Flatten(ss) == IF ss = <<>> THEN <<>> ELSE Head(ss) \o Flatten(Tail(ss))

\* ------------------------------------------------------------------------
\* id_util.py
\* ------------------------------------------------------------------------

\* a ^ b on one byte (or any two naturals)
RECURSIVE Xor(_, _)
Xor(a, b) ==
    IF a = 0 THEN b
    ELSE IF b = 0 THEN a
    ELSE 2 * Xor(a \div 2, b \div 2) + ((a + b) % 2)

\* int.from_bytes(bs, byteorder='big')
RECURSIVE from_bytes(_)
from_bytes(bs) ==
    IF bs = <<>> THEN 0
    ELSE 256 * from_bytes(SubSeq(bs, 1, Len(bs) - 1)) + bs[Len(bs)]

\* int.bit_length()
RECURSIVE bit_length(_)
bit_length(n) == IF n = 0 THEN 0 ELSE 1 + bit_length(n \div 2)

\* raised by calculate_distance on ids of unequal length
ValueError == "ValueError"

calculate_distance(id1, id2) ==
    IF Len(id1) # Len(id2) THEN ValueError
    ELSE from_bytes([i \in 1..Len(id1) |-> Xor(id1[i], id2[i])])

get_bucket_index(self_id, other_id) ==
    LET distance == calculate_distance(self_id, other_id)
    IN IF distance = 0 THEN -1 ELSE bit_length(distance) - 1

\* bytes.hex(): two hex digits per byte
to_hex(bs) == Flatten([i \in 1..Len(bs) |-> <<bs[i] \div 16, bs[i] % 16>>])

\* bytes.fromhex()
from_hex(h) == [i \in 1..(Len(h) \div 2) |-> 16 * h[2 * i - 1] + h[2 * i]]

\* ------------------------------------------------------------------------
\* routing_table.py: KBucket
\* ------------------------------------------------------------------------

Contact(node_id, address, last_seen) ==
    [id |-> node_id, address |-> address, last_seen |-> last_seen]

KBucket(k_value) == [nodes |-> <<>>, k_value |-> k_value]

\* index of the first entry of a node list with this id, 0 when absent
IndexOfId(nodes, node_id) ==
    IF \E i \in 1..Len(nodes) : nodes[i].id = node_id
    THEN CHOOSE i \in 1..Len(nodes) :
            /\ nodes[i].id = node_id
            /\ \A j \in 1..(i - 1) : nodes[j].id # node_id
    ELSE 0

contains(bucket, node_id) == \E i \in 1..Len(bucket.nodes) : bucket.nodes[i].id = node_id

\* a faulty add_node: the capacity test of line 38 is missing
add_node_unbounded(bucket, node_id, address, last_seen) ==
    LET i == IndexOfId(bucket.nodes, node_id)
    IN IF i # 0
       THEN [bucket |-> [bucket EXCEPT !.nodes =
                            Append(RemoveAt(bucket.nodes, i),
                                   Contact(node_id, address, last_seen))],
             result |-> TRUE]
       ELSE [bucket |-> [bucket EXCEPT !.nodes =
                            Append(bucket.nodes, Contact(node_id, address, last_seen))],
             result |-> TRUE]

\* a faulty add_node: a known contact is rewritten where it stands instead of
\* being popped and appended
add_node_in_place(bucket, node_id, address, last_seen) ==
    LET i == IndexOfId(bucket.nodes, node_id)
    IN IF i # 0
       THEN [bucket |-> [bucket EXCEPT !.nodes[i] = Contact(node_id, address, last_seen)],
             result |-> TRUE]
       ELSE IF Len(bucket.nodes) < bucket.k_value
       THEN [bucket |-> [bucket EXCEPT !.nodes =
                            Append(bucket.nodes, Contact(node_id, address, last_seen))],
             result |-> TRUE]
       ELSE [bucket |-> bucket, result |-> FALSE]

\* a faulty add_node: a full bucket evicts its least recently seen contact
\* (the head) to make room for the new one
add_node_evict_oldest(bucket, node_id, address, last_seen) ==
    LET i == IndexOfId(bucket.nodes, node_id)
    IN IF i # 0
       THEN [bucket |-> [bucket EXCEPT !.nodes =
                            Append(RemoveAt(bucket.nodes, i),
                                   Contact(node_id, address, last_seen))],
             result |-> TRUE]
       ELSE IF Len(bucket.nodes) < bucket.k_value
       THEN [bucket |-> [bucket EXCEPT !.nodes =
                            Append(bucket.nodes, Contact(node_id, address, last_seen))],
             result |-> TRUE]
       ELSE [bucket |-> [bucket EXCEPT !.nodes =
                            Append(Tail(bucket.nodes), Contact(node_id, address, last_seen))],
             result |-> TRUE]

\* a faulty add_node: a full bucket overwrites its most recently seen contact
\* (the tail) with the new one
add_node_replace_newest(bucket, node_id, address, last_seen) ==
    LET i == IndexOfId(bucket.nodes, node_id)
    IN IF i # 0
       THEN [bucket |-> [bucket EXCEPT !.nodes =
                            Append(RemoveAt(bucket.nodes, i),
                                   Contact(node_id, address, last_seen))],
             result |-> TRUE]
       ELSE IF Len(bucket.nodes) < bucket.k_value
       THEN [bucket |-> [bucket EXCEPT !.nodes =
                            Append(bucket.nodes, Contact(node_id, address, last_seen))],
             result |-> TRUE]
       ELSE [bucket |-> [bucket EXCEPT !.nodes =
                            Append(SubSeq(bucket.nodes, 1, Len(bucket.nodes) - 1),
                                   Contact(node_id, address, last_seen))],
             result |-> TRUE]

\* KBucket.add_node: [bucket |-> the bucket afterwards, result |-> the return value]
add_node(bucket, node_id, address, last_seen) ==
    LET i == IndexOfId(bucket.nodes, node_id)
    IN IF i # 0
       THEN [bucket |-> [bucket EXCEPT !.nodes =
                            Append(RemoveAt(bucket.nodes, i),
                                   Contact(node_id, address, last_seen))],
             result |-> TRUE]
       ELSE IF Len(bucket.nodes) < bucket.k_value
       THEN [bucket |-> [bucket EXCEPT !.nodes =
                            Append(bucket.nodes, Contact(node_id, address, last_seen))],
             result |-> TRUE]
       ELSE [bucket |-> bucket, result |-> FALSE]

\* KBucket.remove_node
bucket_remove_node(bucket, node_id) ==
    LET i == IndexOfId(bucket.nodes, node_id)
    IN IF i # 0
       THEN [bucket |-> [bucket EXCEPT !.nodes = RemoveAt(bucket.nodes, i)],
             result |-> TRUE]
       ELSE [bucket |-> bucket, result |-> FALSE]

\* ------------------------------------------------------------------------
\* routing_table.py: RoutingTable.  buckets[i + 1] is the source's buckets[i].
\* ------------------------------------------------------------------------

RoutingTable(node_id, k_value, id_bits) ==
    [node_id |-> node_id, k_value |-> k_value, id_bits |-> id_bits,
     buckets |-> [i \in 1..id_bits |-> KBucket(k_value)]]

\* a faulty update: buckets are numbered by the length of the shared prefix,
\* id_bits - 1 - bucket_index
update_prefix_bucket(rt, node_id, address, last_seen) ==
    IF node_id = rt.node_id THEN [rt |-> rt, result |-> FALSE]
    ELSE LET bucket_index == get_bucket_index(rt.node_id, node_id)
             index == rt.id_bits - 1 - bucket_index
         IN IF bucket_index < 0 THEN [rt |-> rt, result |-> FALSE]
            ELSE LET r == add_node(rt.buckets[index + 1], node_id, address, last_seen)
                 IN [rt |-> [rt EXCEPT !.buckets[index + 1] = r.bucket],
                     result |-> r.result]

\* a faulty update: the guards of lines 88-89 and 93-94 are missing, so the
\* index -1 of the own id selects Python's buckets[-1], the last bucket
update_unguarded(rt, node_id, address, last_seen) ==
    LET bucket_index == get_bucket_index(rt.node_id, node_id)
        index == IF bucket_index < 0 THEN rt.id_bits + bucket_index ELSE bucket_index
        r == add_node(rt.buckets[index + 1], node_id, address, last_seen)
    IN [rt |-> [rt EXCEPT !.buckets[index + 1] = r.bucket], result |-> r.result]

\* a faulty update: the result of add_node is dropped and True returned
update_reports_true(rt, node_id, address, last_seen) ==
    IF node_id = rt.node_id THEN [rt |-> rt, result |-> FALSE]
    ELSE LET bucket_index == get_bucket_index(rt.node_id, node_id)
         IN IF bucket_index < 0 THEN [rt |-> rt, result |-> FALSE]
            ELSE LET r == add_node(rt.buckets[bucket_index + 1], node_id, address, last_seen)
                 IN [rt |-> [rt EXCEPT !.buckets[bucket_index + 1] = r.bucket],
                     result |-> TRUE]

\* RoutingTable.update: [rt |-> the table afterwards, result |-> the return value]
update(rt, node_id, address, last_seen) ==
    IF node_id = rt.node_id THEN [rt |-> rt, result |-> FALSE]
    ELSE LET bucket_index == get_bucket_index(rt.node_id, node_id)
         IN IF bucket_index < 0 THEN [rt |-> rt, result |-> FALSE]
            ELSE LET r == add_node(rt.buckets[bucket_index + 1], node_id, address, last_seen)
                 IN [rt |-> [rt EXCEPT !.buckets[bucket_index + 1] = r.bucket],
                     result |-> r.result]

\* RoutingTable.get_all_nodes: the contacts of all buckets, bucket by bucket
get_all_nodes(rt) == Flatten([i \in 1..Len(rt.buckets) |-> rt.buckets[i].nodes])

\* list.sort(key=distance): a stable insertion sort of (distance, node) pairs
RECURSIVE InsertByDistance(_, _)
InsertByDistance(sorted, p) ==
    IF sorted = <<>> THEN <<p>>
    ELSE IF p[1] < Head(sorted)[1] THEN <<p>> \o sorted
    ELSE <<Head(sorted)>> \o InsertByDistance(Tail(sorted), p)

RECURSIVE SortByDistance(_)
SortByDistance(ps) ==
    IF ps = <<>> THEN <<>>
    ELSE InsertByDistance(SortByDistance(SubSeq(ps, 1, Len(ps) - 1)), ps[Len(ps)])

\* a faulty find_closest_nodes: the sort of line 113 is missing
find_first_nodes(rt, target_id, count) == Take(get_all_nodes(rt), count)

\* RoutingTable.find_closest_nodes(target_id, count)
find_closest_nodes(rt, target_id, count) ==
    LET all == get_all_nodes(rt)
        nodes_with_distance ==
            [i \in 1..Len(all) |-> <<calculate_distance(target_id, all[i].id), all[i]>>]
        sorted == SortByDistance(nodes_with_distance)
        best == Take(sorted, count)
    IN [i \in 1..Len(best) |-> best[i][2]]

\* RoutingTable.remove_node
remove_node(rt, node_id) ==
    LET bucket_index == get_bucket_index(rt.node_id, node_id)
    IN IF bucket_index < 0 THEN [rt |-> rt, result |-> FALSE]
       ELSE LET r == bucket_remove_node(rt.buckets[bucket_index + 1], node_id)
            IN [rt |-> [rt EXCEPT !.buckets[bucket_index + 1] = r.bucket],
                result |-> r.result]

\* ------------------------------------------------------------------------
\* Values shared by the simulator model
\* ------------------------------------------------------------------------

\* Python's None for a bytes value (None and b'' are both falsy)
None == <<>>

\* Python's None for a time (send_time / delivery_time / event_time not set)
NoTime == -1

\* no exception is propagating
NoError == "none"

\* an empty dict
EmptyDict == <<>>

DictPut(d, key, v) == [x \in (DOMAIN d) \cup {key} |-> IF x = key THEN v ELSE d[x]]

DictPop(d, key) == [x \in (DOMAIN d) \ {key} |-> d[x]]

\* ------------------------------------------------------------------------
\* message.py
\* ------------------------------------------------------------------------

\* Message.__init__ ; transaction_id is the caller's or a fresh uuid4
Message(msg_type, source_id, target_id, content, transaction_id) ==
    [type |-> msg_type, source_id |-> source_id, target_id |-> target_id,
     content |-> content, transaction_id |-> transaction_id,
     send_time |-> NoTime, delivery_time |-> NoTime]

\* Message.to_dict
to_dict(m) ==
    [type |-> m.type, source_id |-> to_hex(m.source_id), target_id |-> to_hex(m.target_id),
     content |-> m.content, transaction_id |-> m.transaction_id,
     send_time |-> m.send_time, delivery_time |-> m.delivery_time]

\* Message.from_dict
from_dict(data) ==
    [Message(data.type, from_hex(data.source_id), from_hex(data.target_id),
             data.content, data.transaction_id)
        EXCEPT !.send_time = data.send_time, !.delivery_time = data.delivery_time]

\* the automatic request -> response mapping of Message.create_response
AutoResponseType(t) ==
    CASE t = "ping" -> "pong"
      [] t = "find_node" -> "find_node_response"
      [] t = "find_value" -> "find_value_response"
      [] t = "store" -> "store_response"
      [] OTHER -> ValueError

\* a faulty create_response: source and target are not swapped
create_response_unswapped(m, content, msg_type) ==
    Message(IF msg_type = "" THEN AutoResponseType(m.type) ELSE msg_type,
            m.source_id, m.target_id, content, m.transaction_id)

\* Message.create_response(content, msg_type); msg_type = "" stands for None
create_response(m, content, msg_type) ==
    Message(IF msg_type = "" THEN AutoResponseType(m.type) ELSE msg_type,
            m.target_id, m.source_id, content, m.transaction_id)

\* ------------------------------------------------------------------------
\* event_system.py, event_queue.py
\* ------------------------------------------------------------------------

Event(event_type, time, params) == [type |-> event_type, time |-> time, params |-> params]

\* heap entries are (event.time, counter, event) tuples, compared as tuples
EntryLess(a, b) == a[1] < b[1] \/ (a[1] = b[1] /\ a[2] < b[2])

\* a faulty heappush: entries are ordered by time alone, the newest first
\* among equal times
RECURSIVE heappush_newest_first(_, _)
heappush_newest_first(q, entry) ==
    IF q = <<>> THEN <<entry>>
    ELSE IF entry[1] <= Head(q)[1] THEN <<entry>> \o q
    ELSE <<Head(q)>> \o heappush_newest_first(Tail(q), entry)

\* heapq.heappush: the heap is modelled by its entries in pop order
RECURSIVE heappush(_, _)
heappush(q, entry) ==
    IF q = <<>> THEN <<entry>>
    ELSE IF EntryLess(entry, Head(q)) THEN <<entry>> \o q
    ELSE <<Head(q)>> \o heappush(Tail(q), entry)

\* heapq.heappop: [entry |-> the least entry, queue |-> the rest]
heappop(q) == [entry |-> Head(q), queue |-> Tail(q)]

\* EventQueue.peek_time
peek_time(q) == IF q = <<>> THEN NoTime ELSE Head(q)[1]

\* EventQueue.has_events
has_events(q) == Len(q) > 0

\* ------------------------------------------------------------------------
\* The simulator's state as the handlers thread it ("the world"):
\*   nodes      DHTSimulator.nodes: node id -> DHTNode
\*   listeners  how many callbacks the emitter holds for MESSAGE_RECEIVED
\*   queue, counter   EventQueue._queue, EventQueue._counter
\*   txn        the next fresh uuid4 (uuid4 values never repeat)
\*   rnd, used  the values the seeded RNG yields in this step, and how many
\*              of them have been consumed
\*   err        the exception propagating out of the current call, if any
\*   base_packet_loss   config.get("network.base_packet_loss", 0.1), in 1/1000
\*   handled    history: every handle_message call, as [ctr |-> counter of
\*              the MESSAGE_RECEIVED entry, node |-> the node called,
\*              message |-> the message passed]
\*   origin     history: counter of a response's MESSAGE_RECEIVED entry ->
\*              the request message handle_message answered with it
\*   sends      history: every send_message call, its outcome and how many
\*              MESSAGE_SENT events it emitted
\* ------------------------------------------------------------------------

\* network.min_delay, network.max_delay
MinDelay == 1
MaxDelay == 3

\* network.base_packet_loss, in 1/1000
BasePacketLoss == 100

\* DHTNode.PING_TIMEOUT, DHTNode.MAX_RETRIES
PING_TIMEOUT == 2000
MAX_RETRIES == 2

\* the values random.uniform(-0.05, 0.05) and random.random() are sampled at, in
\* 1/1000: both ends of the variation, and one value of random() that lies
\* between the loss rates the two variations give
Variations == {-50, 50}
Uniforms == {100}

\* one send_message call's draws from the RNG
Draws == [delay : MinDelay..MaxDelay, variation : Variations, u : Uniforms]

DefaultDraw == [delay |-> MinDelay, variation |-> -50, u |-> 100]

NextDraw(w) == IF w.used < Len(w.rnd) THEN w.rnd[w.used + 1] ELSE DefaultDraw

\* EventQueue.schedule / DHTSimulator.schedule_event
schedule_event(w, event) ==
    [w EXCEPT !.queue = heappush(@, <<event.time, w.counter, event>>),
              !.counter = @ + 1]

\* normalize_address inside calculate_packet_loss_rate
normalize_address(addr) ==
    IF Len(addr) < 4 THEN [i \in 1..(4 - Len(addr)) |-> 0] \o addr
    ELSE SubSeq(addr, 1, 4)

\* a faulty loss rate: the random variation is added after the clamp
calculate_packet_loss_rate_late_variation(base_packet_loss, source_address, target_address, variation) ==
    LET distance == calculate_distance(normalize_address(source_address),
                                       normalize_address(target_address))
        packet_loss_rate == base_packet_loss + (distance \div 21474836)
    IN (IF packet_loss_rate < 0 THEN 0
        ELSE IF packet_loss_rate > 1000 THEN 1000 ELSE packet_loss_rate) + variation

\* DHTSimulator.calculate_packet_loss_rate, in 1/1000, for one value of the
\* random variation; base_packet_loss is config.get("network.base_packet_loss",
\* 0.1).  distance / (2**32 - 1) * 0.2 is distance / 21474836.475.
calculate_packet_loss_rate(base_packet_loss, source_address, target_address, variation) ==
    LET distance == calculate_distance(normalize_address(source_address),
                                       normalize_address(target_address))
        packet_loss_rate == base_packet_loss + (distance \div 21474836)
        v == packet_loss_rate + variation
    IN IF v < 0 THEN 0 ELSE IF v > 1000 THEN 1000 ELSE v

\* a faulty delivery time: the delay alone, not added to the send time
DeliveryTimeUnanchored(send_time, delay) == delay

\* line 232: delivery_time = message.send_time + delay
DeliveryTime(send_time, delay) == send_time + delay

\* a faulty send_message: the test of line 221 is missing, a MESSAGE_DROPPED
\* event is scheduled for a lost message of any type
send_message_noting_every_drop(w, message, event_time, now) ==
    IF w.err # NoError THEN w
    ELSE
    LET send_time == IF event_time # NoTime THEN event_time ELSE now
        m == [message EXCEPT !.send_time = send_time]
        note(outcome, delay, sent_events) ==
            [type |-> m.type, source_id |-> m.source_id, target_id |-> m.target_id,
             transaction_id |-> m.transaction_id, content |-> m.content,
             send_time |-> send_time, delay |-> delay, outcome |-> outcome,
             sent_events |-> sent_events,
             ctr |-> w.counter]
    IN IF m.target_id \notin DOMAIN w.nodes
       THEN [w EXCEPT !.sends = Append(@, note("ignored", 0, 0))]
       ELSE IF m.source_id \notin DOMAIN w.nodes
       THEN [w EXCEPT !.err = "KeyError"]
       ELSE
       LET draw == NextDraw(w)
           w1 == [w EXCEPT !.used = @ + 1]
           delay == draw.delay
           packet_loss_rate ==
               calculate_packet_loss_rate(w.base_packet_loss, w.nodes[m.source_id].address,
                                          w.nodes[m.target_id].address, draw.variation)
       IN IF draw.u < packet_loss_rate
          THEN LET w2 == [w1 EXCEPT !.sends = Append(@, note("dropped", delay, 0))]
               IN schedule_event(w2, Event("MESSAGE_DROPPED", send_time + (delay \div 2),
                                           [message |-> to_dict(m)]))
          ELSE LET m2 == [m EXCEPT !.delivery_time = DeliveryTime(send_time, delay)]
                   w2 == [w1 EXCEPT !.sends = Append(@, note("received", delay, 1))]
               IN schedule_event(w2, Event("MESSAGE_RECEIVED", m2.delivery_time,
                                           [message |-> to_dict(m2)]))

\* DHTSimulator.send_message(message, event_time); now is clock.get_time()
send_message(w, message, event_time, now) ==
    IF w.err # NoError THEN w
    ELSE
    LET send_time == IF event_time # NoTime THEN event_time ELSE now
        m == [message EXCEPT !.send_time = send_time]
        note(outcome, delay, sent_events) ==
            [type |-> m.type, source_id |-> m.source_id, target_id |-> m.target_id,
             transaction_id |-> m.transaction_id, content |-> m.content,
             send_time |-> send_time, delay |-> delay, outcome |-> outcome,
             sent_events |-> sent_events,
             ctr |-> w.counter]
    IN IF m.target_id \notin DOMAIN w.nodes
       THEN [w EXCEPT !.sends = Append(@, note("ignored", 0, 0))]
       ELSE IF m.source_id \notin DOMAIN w.nodes
       THEN [w EXCEPT !.err = "KeyError"]
       ELSE
       LET draw == NextDraw(w)
           w1 == [w EXCEPT !.used = @ + 1]
           delay == draw.delay
           packet_loss_rate ==
               calculate_packet_loss_rate(w.base_packet_loss, w.nodes[m.source_id].address,
                                          w.nodes[m.target_id].address, draw.variation)
       IN IF draw.u < packet_loss_rate
          THEN LET w2 == [w1 EXCEPT !.sends = Append(@, note("dropped", delay, 0))]
               IN IF m.type \in {"find_node", "find_value"}
                  THEN schedule_event(w2, Event("MESSAGE_DROPPED", send_time + (delay \div 2),
                                                [message |-> to_dict(m)]))
                  ELSE w2
          ELSE LET m2 == [m EXCEPT !.delivery_time = DeliveryTime(send_time, delay)]
                   w2 == [w1 EXCEPT !.sends = Append(@, note("received", delay, 1))]
               IN schedule_event(w2, Event("MESSAGE_RECEIVED", m2.delivery_time,
                                           [message |-> to_dict(m2)]))

\* ------------------------------------------------------------------------
\* dht_node.py
\* ------------------------------------------------------------------------

\* DHTNode.__init__ up to the registration
DHTNode(node_id, address, k_value, id_bits) ==
    [node_id |-> node_id, address |-> address,
     routing_table |-> RoutingTable(node_id, k_value, id_bits),
     file_providers |-> EmptyDict, owned_files |-> {}, is_online |-> FALSE,
     pending_responses |-> EmptyDict, last_check_time |-> 0]

\* DHTSimulator.register_node
register_node(w, node) ==
    IF node.node_id \in DOMAIN w.nodes THEN w
    ELSE [w EXCEPT !.nodes = DictPut(@, node.node_id, node),
                   !.listeners = @ + 1]

\* the node list of a FIND_NODE_RESPONSE / FIND_VALUE_RESPONSE
NodeList(closest_nodes) ==
    [i \in 1..Len(closest_nodes) |->
        [id |-> to_hex(closest_nodes[i].id), address |-> to_hex(closest_nodes[i].address)]]

\* a faulty update: the routing table is shared, every node's table changes
rt_update_shared(w, self_id, node_id, address, last_seen) ==
    [w EXCEPT !.nodes = [id \in DOMAIN @ |->
        [@[id] EXCEPT !.routing_table = update(@, node_id, address, last_seen).rt]]]

\* self.routing_table.update(...) on node self_id, the result discarded
rt_update(w, self_id, node_id, address, last_seen) ==
    [w EXCEPT !.nodes[self_id].routing_table = update(@, node_id, address, last_seen).rt]

\* DHTNode._send_ping
send_ping(w, self_id, target_id, event_time, now) ==
    LET send_time == IF event_time # NoTime THEN event_time ELSE now
        message == Message("ping", self_id, target_id,
                           [ping |-> "ping", retry_count |-> 0], w.txn)
        w1 == [w EXCEPT !.txn = @ + 1,
                        !.nodes[self_id].pending_responses =
                            DictPut(@, message.transaction_id,
                                    [type |-> "ping", time |-> send_time,
                                     retry_count |-> 0, target_id |-> target_id])]
    IN send_message(w1, message, send_time, now)

\* DHTNode._send_find_node; callback_data is the file id of {"file_id": ...},
\* None for {}
send_find_node(w, self_id, target_id, node_id_to_find, callback_type, callback_data, event_time, now) ==
    LET send_time == IF event_time # NoTime THEN event_time ELSE now
        message == Message("find_node", self_id, target_id,
                           [target |-> to_hex(node_id_to_find)], w.txn)
        w1 == [w EXCEPT !.txn = @ + 1,
                        !.nodes[self_id].pending_responses =
                            DictPut(@, message.transaction_id,
                                    [type |-> callback_type,
                                     data |-> [file_id |-> callback_data],
                                     time |-> send_time])]
    IN send_message(w1, message, send_time, now)

\* DHTNode._send_find_value
send_find_value(w, self_id, target_id, file_id, event_time, now) ==
    LET send_time == IF event_time # NoTime THEN event_time ELSE now
        message == Message("find_value", self_id, target_id,
                           [key |-> to_hex(file_id)], w.txn)
        w1 == [w EXCEPT !.txn = @ + 1,
                        !.nodes[self_id].pending_responses =
                            DictPut(@, message.transaction_id,
                                    [type |-> "find_value",
                                     data |-> [file_id |-> file_id],
                                     time |-> send_time])]
    IN send_message(w1, message, send_time, now)

\* DHTNode._send_store
send_store(w, self_id, target_id, file_id, provider_address, event_time, now) ==
    LET send_time == IF event_time # NoTime THEN event_time ELSE now
        message == Message("store", self_id, target_id,
                           [key |-> to_hex(file_id), provider |-> to_hex(provider_address)],
                           w.txn)
        w1 == [w EXCEPT !.txn = @ + 1,
                        !.nodes[self_id].pending_responses =
                            DictPut(@, message.transaction_id,
                                    [type |-> "store",
                                     data |-> [file_id |-> file_id],
                                     time |-> send_time])]
    IN send_message(w1, message, send_time, now)

\* a handler's result: the world afterwards and the returned message, if any
\* (response is <<>> for None, <<m>> for a message m)
Returns(w, response) == [w |-> w, response |-> response]

\* DHTNode._handle_ping
handle_ping(w, self_id, message) ==
    LET retry_count == message.content.retry_count
        response == create_response(message, [pong |-> "pong", retry_count |-> retry_count],
                                    "pong")
    IN Returns(w, <<[response EXCEPT !.send_time = message.delivery_time]>>)

\* DHTNode._handle_pong.  RoutingTable has no update_last_seen: the call on
\* line 192 raises AttributeError, after the pending record has been popped.
handle_pong(w, self_id, message) ==
    IF message.transaction_id \notin DOMAIN w.nodes[self_id].pending_responses
    THEN Returns(w, <<>>)
    ELSE LET callback_info == w.nodes[self_id].pending_responses[message.transaction_id]
             w1 == [w EXCEPT !.nodes[self_id].pending_responses =
                                 DictPop(@, message.transaction_id)]
         IN IF callback_info.type = "ping"
            THEN Returns([w1 EXCEPT !.err = "AttributeError"], <<>>)
            ELSE Returns(w1, <<>>)

\* DHTNode._handle_find_node
handle_find_node(w, self_id, message) ==
    LET target_id_hex == message.content.target
    IN IF target_id_hex = <<>> THEN Returns(w, <<>>)
       ELSE LET target_id == from_hex(target_id_hex)
                rt == w.nodes[self_id].routing_table
                closest_nodes == find_closest_nodes(rt, target_id, rt.k_value)
                response == create_response(message, [nodes |-> NodeList(closest_nodes)],
                                            "find_node_response")
            IN Returns(w, <<[response EXCEPT !.send_time = message.delivery_time]>>)

\* for node_info in nodes: self.routing_table.update(node_id, address, delivery_time)
RECURSIVE update_each(_, _, _, _)
update_each(w, self_id, nodes, delivery_time) ==
    IF nodes = <<>> THEN w
    ELSE update_each(rt_update(w, self_id, from_hex(Head(nodes).id),
                               from_hex(Head(nodes).address), delivery_time),
                     self_id, Tail(nodes), delivery_time)

\* for node_info in nodes: if node_id != self.node_id: self._send_ping(...)
RECURSIVE ping_each(_, _, _, _, _)
ping_each(w, self_id, nodes, delivery_time, now) ==
    IF nodes = <<>> \/ w.err # NoError THEN w
    ELSE LET node_id == from_hex(Head(nodes).id)
             w1 == IF node_id # self_id
                   THEN send_ping(w, self_id, node_id, delivery_time, now)
                   ELSE w
         IN ping_each(w1, self_id, Tail(nodes), delivery_time, now)

\* a faulty store loop: the test of line 294 is missing, the node also sends
\* the STORE to itself
RECURSIVE store_each_to_all(_, _, _, _, _, _)
store_each_to_all(w, self_id, nodes, file_id, delivery_time, now) ==
    IF nodes = <<>> \/ w.err # NoError THEN w
    ELSE store_each_to_all(send_store(w, self_id, from_hex(Head(nodes).id), file_id,
                                      w.nodes[self_id].address, delivery_time, now),
                           self_id, Tail(nodes), file_id, delivery_time, now)

\* for node_info in nodes: if node_id != self.node_id: self._send_store(...)
RECURSIVE store_each(_, _, _, _, _, _)
store_each(w, self_id, nodes, file_id, delivery_time, now) ==
    IF nodes = <<>> \/ w.err # NoError THEN w
    ELSE LET node_id == from_hex(Head(nodes).id)
             w1 == IF node_id # self_id
                   THEN send_store(w, self_id, node_id, file_id,
                                   w.nodes[self_id].address, delivery_time, now)
                   ELSE w
         IN store_each(w1, self_id, Tail(nodes), file_id, delivery_time, now)

\* DHTNode._handle_find_node_response
handle_find_node_response(w, self_id, message, now) ==
    IF message.transaction_id \notin DOMAIN w.nodes[self_id].pending_responses
    THEN Returns(w, <<>>)
    ELSE LET callback_info == w.nodes[self_id].pending_responses[message.transaction_id]
             w1 == [w EXCEPT !.nodes[self_id].pending_responses =
                                 DictPop(@, message.transaction_id)]
             nodes == message.content.nodes
             w2 == update_each(w1, self_id, nodes, message.delivery_time)
         IN IF callback_info.type = "join_network"
            THEN Returns(ping_each(w2, self_id, nodes, message.delivery_time, now), <<>>)
            ELSE IF callback_info.type = "store_file"
            THEN LET file_id == callback_info.data.file_id
                 IN IF file_id # None
                    THEN Returns(store_each(w2, self_id, nodes, file_id,
                                            message.delivery_time, now), <<>>)
                    ELSE Returns(w2, <<>>)
            ELSE Returns(w2, <<>>)

\* a faulty _handle_find_value: the found answer carries the first provider
\* record only
handle_find_value_first_provider(w, self_id, message) ==
    LET file_id_hex == message.content.key
    IN IF file_id_hex = <<>> THEN Returns(w, <<>>)
       ELSE
       LET file_id == from_hex(file_id_hex)
           node == w.nodes[self_id]
       IN IF file_id \in DOMAIN node.file_providers
          THEN LET infos == Take(node.file_providers[file_id], 1)
                   providers == [i \in 1..Len(infos) |->
                                    [address |-> to_hex(infos[i].address),
                                     last_seen |-> infos[i].last_seen]]
                   response == create_response(message,
                                   [found |-> TRUE, key |-> file_id_hex,
                                    providers |-> providers], "find_value_response")
               IN Returns(w, <<[response EXCEPT !.send_time = message.delivery_time]>>)
          ELSE LET rt == node.routing_table
                   closest_nodes == find_closest_nodes(rt, file_id, rt.k_value)
                   response == create_response(message,
                                   [found |-> FALSE, key |-> file_id_hex,
                                    nodes |-> NodeList(closest_nodes)], "find_value_response")
               IN Returns(w, <<[response EXCEPT !.send_time = message.delivery_time]>>)

\* DHTNode._handle_find_value
handle_find_value(w, self_id, message) ==
    LET file_id_hex == message.content.key
    IN IF file_id_hex = <<>> THEN Returns(w, <<>>)
       ELSE
       LET file_id == from_hex(file_id_hex)
           node == w.nodes[self_id]
       IN IF file_id \in DOMAIN node.file_providers
          THEN LET infos == node.file_providers[file_id]
                   providers == [i \in 1..Len(infos) |->
                                    [address |-> to_hex(infos[i].address),
                                     last_seen |-> infos[i].last_seen]]
                   response == create_response(message,
                                   [found |-> TRUE, key |-> file_id_hex,
                                    providers |-> providers], "find_value_response")
               IN Returns(w, <<[response EXCEPT !.send_time = message.delivery_time]>>)
          ELSE LET rt == node.routing_table
                   closest_nodes == find_closest_nodes(rt, file_id, rt.k_value)
                   response == create_response(message,
                                   [found |-> FALSE, key |-> file_id_hex,
                                    nodes |-> NodeList(closest_nodes)], "find_value_response")
               IN Returns(w, <<[response EXCEPT !.send_time = message.delivery_time]>>)

\* a faulty provider update: the record is appended without looking for the
\* address
put_provider_appending(providers, address, last_seen) ==
    Append(providers, [address |-> address, last_seen |-> last_seen])

\* the provider list of one file after a record for address was offered:
\* an existing record's last_seen is set in place, a new record is appended
put_provider(providers, address, last_seen) ==
    IF \E i \in 1..Len(providers) : providers[i].address = address
    THEN LET i == CHOOSE i \in 1..Len(providers) :
                     /\ providers[i].address = address
                     /\ \A j \in 1..(i - 1) : providers[j].address # address
         IN [providers EXCEPT ![i].last_seen = last_seen]
    ELSE Append(providers, [address |-> address, last_seen |-> last_seen])

\* self.file_providers[file_id], created empty when missing, after put_provider
add_provider(file_providers, file_id, address, last_seen) ==
    LET old == IF file_id \in DOMAIN file_providers THEN file_providers[file_id] ELSE <<>>
    IN DictPut(file_providers, file_id, put_provider(old, address, last_seen))

\* for provider_info in providers: ... (the found branch of
\* _handle_find_value_response)
RECURSIVE merge_providers(_, _, _, _)
merge_providers(w, self_id, file_id, providers) ==
    IF providers = <<>> THEN w
    ELSE merge_providers(
            [w EXCEPT !.nodes[self_id].file_providers =
                add_provider(@, file_id, from_hex(Head(providers).address),
                             Head(providers).last_seen)],
            self_id, file_id, Tail(providers))

\* for node_info in nodes: update the routing table, then _send_find_value (the
\* not-found branch of _handle_find_value_response)
RECURSIVE find_value_each(_, _, _, _, _, _)
find_value_each(w, self_id, nodes, file_id, delivery_time, now) ==
    IF nodes = <<>> \/ w.err # NoError THEN w
    ELSE LET node_id == from_hex(Head(nodes).id)
             address == from_hex(Head(nodes).address)
             w1 == rt_update(w, self_id, node_id, address, delivery_time)
             w2 == send_find_value(w1, self_id, node_id, file_id, delivery_time, now)
         IN find_value_each(w2, self_id, Tail(nodes), file_id, delivery_time, now)

\* a faulty _handle_find_value_response: the providers of an answer to no
\* pending request are recorded all the same
handle_find_value_response_unsolicited(w, self_id, message, now) ==
    IF message.transaction_id \notin DOMAIN w.nodes[self_id].pending_responses
    THEN IF message.content.found
         THEN Returns(merge_providers(w, self_id, from_hex(message.content.key),
                                      message.content.providers), <<>>)
         ELSE Returns(w, <<>>)
    ELSE LET callback_info == w.nodes[self_id].pending_responses[message.transaction_id]
             w1 == [w EXCEPT !.nodes[self_id].pending_responses =
                                 DictPop(@, message.transaction_id)]
         IN IF callback_info.type # "find_value" THEN Returns(w1, <<>>)
            ELSE LET file_id == callback_info.data.file_id
                 IN IF file_id = None THEN Returns(w1, <<>>)
                    ELSE IF message.content.found
                    THEN Returns(merge_providers(w1, self_id, file_id,
                                                 message.content.providers), <<>>)
                    ELSE Returns(find_value_each(w1, self_id, message.content.nodes, file_id,
                                                 message.delivery_time, now), <<>>)

\* DHTNode._handle_find_value_response
handle_find_value_response(w, self_id, message, now) ==
    IF message.transaction_id \notin DOMAIN w.nodes[self_id].pending_responses
    THEN Returns(w, <<>>)
    ELSE LET callback_info == w.nodes[self_id].pending_responses[message.transaction_id]
             w1 == [w EXCEPT !.nodes[self_id].pending_responses =
                                 DictPop(@, message.transaction_id)]
         IN IF callback_info.type # "find_value" THEN Returns(w1, <<>>)
            ELSE LET file_id == callback_info.data.file_id
                 IN IF file_id = None THEN Returns(w1, <<>>)
                    ELSE IF message.content.found
                    THEN Returns(merge_providers(w1, self_id, file_id,
                                                 message.content.providers), <<>>)
                    ELSE Returns(find_value_each(w1, self_id, message.content.nodes, file_id,
                                                 message.delivery_time, now), <<>>)

\* DHTNode._handle_store
handle_store(w, self_id, message) ==
    LET file_id_hex == message.content.key
        provider_hex == message.content.provider
    IN IF file_id_hex = <<>> \/ provider_hex = <<>> THEN Returns(w, <<>>)
       ELSE LET file_id == from_hex(file_id_hex)
                provider_address == from_hex(provider_hex)
                w1 == [w EXCEPT !.nodes[self_id].file_providers =
                          add_provider(@, file_id, provider_address, message.delivery_time)]
                response == create_response(message, [status |-> "success"], "store_response")
            IN Returns(w1, <<[response EXCEPT !.send_time = message.delivery_time]>>)

\* DHTNode._handle_store_response
handle_store_response(w, self_id, message) ==
    IF message.transaction_id \in DOMAIN w.nodes[self_id].pending_responses
    THEN Returns([w EXCEPT !.nodes[self_id].pending_responses =
                              DictPop(@, message.transaction_id)], <<>>)
    ELSE Returns(w, <<>>)

\* a faulty handle_message: the online test of lines 122-123 is missing
handle_message_offline(w, self_id, message, now) ==
    LET w1 == rt_update(w, self_id, message.source_id, message.source_id,
                        message.delivery_time)
    IN CASE message.type = "ping" -> handle_ping(w1, self_id, message)
         [] message.type = "pong" -> handle_pong(w1, self_id, message)
         [] message.type = "find_node" -> handle_find_node(w1, self_id, message)
         [] message.type = "find_node_response" ->
               handle_find_node_response(w1, self_id, message, now)
         [] message.type = "find_value" -> handle_find_value(w1, self_id, message)
         [] message.type = "find_value_response" ->
               handle_find_value_response(w1, self_id, message, now)
         [] message.type = "store" -> handle_store(w1, self_id, message)
         [] message.type = "store_response" ->
               handle_store_response(w1, self_id, message)
         [] OTHER -> Returns(w1, <<>>)

\* a faulty handle_message: the update of lines 126-130 is missing, the
\* sender is not recorded
handle_message_not_noting_sender(w, self_id, message, now) ==
    IF ~w.nodes[self_id].is_online THEN Returns(w, <<>>)
    ELSE CASE message.type = "ping" -> handle_ping(w, self_id, message)
           [] message.type = "pong" -> handle_pong(w, self_id, message)
           [] message.type = "find_node" -> handle_find_node(w, self_id, message)
           [] message.type = "find_node_response" ->
                 handle_find_node_response(w, self_id, message, now)
           [] message.type = "find_value" -> handle_find_value(w, self_id, message)
           [] message.type = "find_value_response" ->
                 handle_find_value_response(w, self_id, message, now)
           [] message.type = "store" -> handle_store(w, self_id, message)
           [] message.type = "store_response" ->
                 handle_store_response(w, self_id, message)
           [] OTHER -> Returns(w, <<>>)

\* DHTNode.handle_message
handle_message(w, self_id, message, now) ==
    IF ~w.nodes[self_id].is_online THEN Returns(w, <<>>)
    ELSE LET w1 == rt_update(w, self_id, message.source_id, message.source_id,
                             message.delivery_time)
         IN CASE message.type = "ping" -> handle_ping(w1, self_id, message)
              [] message.type = "pong" -> handle_pong(w1, self_id, message)
              [] message.type = "find_node" -> handle_find_node(w1, self_id, message)
              [] message.type = "find_node_response" ->
                    handle_find_node_response(w1, self_id, message, now)
              [] message.type = "find_value" -> handle_find_value(w1, self_id, message)
              [] message.type = "find_value_response" ->
                    handle_find_value_response(w1, self_id, message, now)
              [] message.type = "store" -> handle_store(w1, self_id, message)
              [] message.type = "store_response" ->
                    handle_store_response(w1, self_id, message)
              [] OTHER -> Returns(w1, <<>>)

\* a faulty join_network: the already-online test of lines 48-49 is missing
join_network_again(w, self_id, seed_node_id, now) ==
    LET w1 == [w EXCEPT !.nodes[self_id].is_online = TRUE]
    IN IF seed_node_id # None /\ seed_node_id # self_id
       THEN send_find_node(w1, self_id, seed_node_id, self_id, "join_network", None,
                           NoTime, now)
       ELSE w1

\* DHTNode.join_network
join_network(w, self_id, seed_node_id, now) ==
    IF w.nodes[self_id].is_online THEN w
    ELSE LET w1 == [w EXCEPT !.nodes[self_id].is_online = TRUE]
         IN IF seed_node_id # None /\ seed_node_id # self_id
            THEN send_find_node(w1, self_id, seed_node_id, self_id, "join_network", None,
                                NoTime, now)
            ELSE w1

\* a faulty leave_network: the pending requests are cancelled
leave_network_cancelling(w, self_id) ==
    IF ~w.nodes[self_id].is_online THEN w
    ELSE [w EXCEPT !.nodes[self_id].is_online = FALSE,
                   !.nodes[self_id].pending_responses = EmptyDict]

\* DHTNode.leave_network
leave_network(w, self_id) ==
    IF ~w.nodes[self_id].is_online THEN w
    ELSE [w EXCEPT !.nodes[self_id].is_online = FALSE]

\* for node in closest_nodes: self._send_find_node(node["id"], target_id, ...)
RECURSIVE find_node_each(_, _, _, _, _, _, _, _)
find_node_each(w, self_id, closest_nodes, target_id, callback_type, callback_data, event_time, now) ==
    IF closest_nodes = <<>> \/ w.err # NoError THEN w
    ELSE find_node_each(
            send_find_node(w, self_id, Head(closest_nodes).id, target_id, callback_type,
                           callback_data, event_time, now),
            self_id, Tail(closest_nodes), target_id, callback_type, callback_data,
            event_time, now)

\* DHTNode._find_closest_nodes
find_closest(w, self_id, target_id, callback_type, callback_data, event_time, now) ==
    LET rt == w.nodes[self_id].routing_table
        closest_nodes == find_closest_nodes(rt, target_id, rt.k_value)
    IN find_node_each(w, self_id, closest_nodes, target_id, callback_type, callback_data,
                      event_time, now)

\* a faulty publish_file: the file is not added to owned_files
publish_file_unrecorded(w, self_id, file_id, now) ==
    IF ~w.nodes[self_id].is_online THEN w
    ELSE find_closest(w, self_id, file_id, "store_file", file_id, now, now)

\* DHTNode.publish_file
publish_file(w, self_id, file_id, now) ==
    IF ~w.nodes[self_id].is_online THEN w
    ELSE find_closest([w EXCEPT !.nodes[self_id].owned_files = @ \cup {file_id}],
                      self_id, file_id, "store_file", file_id, now, now)

\* for node in closest_nodes: self._send_find_value(node["id"], file_id, event_time)
RECURSIVE find_value_closest(_, _, _, _, _, _)
find_value_closest(w, self_id, closest_nodes, file_id, event_time, now) ==
    IF closest_nodes = <<>> \/ w.err # NoError THEN w
    ELSE find_value_closest(
            send_find_value(w, self_id, Head(closest_nodes).id, file_id, event_time, now),
            self_id, Tail(closest_nodes), file_id, event_time, now)

\* a faulty _find_value: every contact of the routing table is asked
find_value_every_contact(w, self_id, file_id, event_time, now) ==
    IF file_id \in w.nodes[self_id].owned_files THEN w
    ELSE find_value_closest(w, self_id, get_all_nodes(w.nodes[self_id].routing_table),
                            file_id, event_time, now)

\* DHTNode._find_value
find_value(w, self_id, file_id, event_time, now) ==
    IF file_id \in w.nodes[self_id].owned_files THEN w
    ELSE LET rt == w.nodes[self_id].routing_table
         IN find_value_closest(w, self_id, find_closest_nodes(rt, file_id, rt.k_value),
                               file_id, event_time, now)

\* DHTNode.retrieve_file
retrieve_file(w, self_id, file_id, now) ==
    IF ~w.nodes[self_id].is_online THEN w
    ELSE find_value(w, self_id, file_id, now, now)

\* a faulty _handle_ping_timeout: the retry test of line 205 reads <=, one
\* more PING is re-sent before the contact is dropped
handle_ping_timeout_one_more(w, self_id, transaction_id, now) ==
    IF transaction_id \notin DOMAIN w.nodes[self_id].pending_responses THEN w
    ELSE LET info == w.nodes[self_id].pending_responses[transaction_id]
         IN IF info.type # "ping" THEN w
            ELSE IF info.retry_count <= MAX_RETRIES
            THEN LET message == Message("ping", self_id, info.target_id,
                                        [ping |-> "ping",
                                         retry_count |-> info.retry_count + 1], w.txn)
                     w1 == [w EXCEPT !.txn = @ + 1,
                                     !.nodes[self_id].pending_responses[transaction_id] =
                                         [info EXCEPT !.retry_count = @ + 1,
                                                      !.time = now]]
                 IN send_message(w1, message, now, now)
            ELSE [w EXCEPT !.nodes[self_id].routing_table =
                               remove_node(@, info.target_id).rt,
                           !.nodes[self_id].pending_responses =
                               DictPop(@, transaction_id)]

\* DHTNode._handle_ping_timeout: resend the PING under a fresh transaction id
\* (the pending record keeps its key) until MAX_RETRIES, then drop the contact
handle_ping_timeout(w, self_id, transaction_id, now) ==
    IF transaction_id \notin DOMAIN w.nodes[self_id].pending_responses THEN w
    ELSE LET info == w.nodes[self_id].pending_responses[transaction_id]
         IN IF info.type # "ping" THEN w
            ELSE IF info.retry_count < MAX_RETRIES
            THEN LET message == Message("ping", self_id, info.target_id,
                                        [ping |-> "ping",
                                         retry_count |-> info.retry_count + 1], w.txn)
                     w1 == [w EXCEPT !.txn = @ + 1,
                                     !.nodes[self_id].pending_responses[transaction_id] =
                                         [info EXCEPT !.retry_count = @ + 1,
                                                      !.time = now]]
                 IN send_message(w1, message, now, now)
            ELSE [w EXCEPT !.nodes[self_id].routing_table =
                               remove_node(@, info.target_id).rt,
                           !.nodes[self_id].pending_responses =
                               DictPop(@, transaction_id)]

\* lines 99-104: the pending PINGs sent PING_TIMEOUT or longer ago, among the
\* transaction ids txids, in the dict's order
RECURSIVE ping_timeouts(_, _, _)
ping_timeouts(pending_responses, txids, now) ==
    IF txids = {} THEN <<>>
    ELSE LET txid == CHOOSE t \in txids : \A o \in txids : t <= o
             info == pending_responses[txid]
         IN (IF info.type = "ping" /\ now - info.time >= PING_TIMEOUT
             THEN <<txid>> ELSE <<>>)
            \o ping_timeouts(pending_responses, txids \ {txid}, now)

\* lines 107-108: for txid in timeouts: self._handle_ping_timeout(txid)
RECURSIVE ping_timeout_each(_, _, _, _)
ping_timeout_each(w, self_id, timeouts, now) ==
    IF timeouts = <<>> \/ w.err # NoError THEN w
    ELSE ping_timeout_each(handle_ping_timeout(w, self_id, Head(timeouts), now),
                           self_id, Tail(timeouts), now)

\* DHTNode.handle_event
handle_event(w, self_id, event, now) ==
    CASE event.type = "SIMULATION_TICK" ->
            IF now - w.nodes[self_id].last_check_time >= 100
            THEN ping_timeout_each(
                    [w EXCEPT !.nodes[self_id].last_check_time = now], self_id,
                    ping_timeouts(w.nodes[self_id].pending_responses,
                                  DOMAIN w.nodes[self_id].pending_responses, now),
                    now)
            ELSE w
      [] event.type = "NODE_LEAVE" ->
            IF event.params.node_id # self_id
            THEN [w EXCEPT !.nodes[self_id].routing_table =
                               remove_node(@, event.params.node_id).rt]
            ELSE w
      [] OTHER -> w

\* ------------------------------------------------------------------------
\* dht_simulator.py: event dispatch
\* ------------------------------------------------------------------------

\* history: the entry numbered ctr, if send_message scheduled it, carries the
\* response to request
note_origin(w, ctr, request) ==
    IF w.counter > ctr THEN [w EXCEPT !.origin = DictPut(@, ctr, request)] ELSE w

\* a faulty response: it is sent at the request's send time, not at the time
\* the request was delivered
send_response_at_send_time(r, request, event, now) ==
    IF r.w.err # NoError \/ r.response = <<>> THEN r.w
    ELSE note_origin(send_message(r.w, r.response[1], request.send_time, now),
                     r.w.counter, request)

\* lines 313-314: if response: self.send_message(response, event.time)
send_response(r, request, event, now) ==
    IF r.w.err # NoError \/ r.response = <<>> THEN r.w
    ELSE note_origin(send_message(r.w, r.response[1], event.time, now),
                     r.w.counter, request)

\* lines 297-314, for the message rebuilt from the event
deliver(w, message, event, ctr, now) ==
    IF message.target_id \notin DOMAIN w.nodes THEN w
    ELSE send_response(
            handle_message([w EXCEPT !.handled =
                               Append(@, [ctr |-> ctr, node |-> message.target_id,
                                          message |-> message])],
                           message.target_id, message, now),
            message, event, now)

\* DHTSimulator._on_message_received, for the queue entry numbered ctr
on_message_received(w, event, ctr, now) ==
    deliver(w, from_dict(event.params.message), event, ctr, now)

\* EventEmitter.emit for MESSAGE_RECEIVED: every registered callback is
\* _on_message_received, called in turn; an exception ends the loop
RECURSIVE emit_message_received(_, _, _, _, _)
emit_message_received(w, event, ctr, now, callbacks) ==
    IF callbacks = 0 \/ w.err # NoError THEN w
    ELSE emit_message_received(on_message_received(w, event, ctr, now),
                               event, ctr, now, callbacks - 1)

\* DHTSimulator._process_event after clock.set_time(event.time); the core
\* registers listeners for MESSAGE_RECEIVED only
process_event(w, event, ctr) ==
    LET now == event.time
        params == event.params
    IN CASE event.type = "NODE_JOIN" ->
              IF params.node_id \in DOMAIN w.nodes
              THEN join_network(w, params.node_id, params.seed_node_id, now)
              ELSE w
         [] event.type = "NODE_LEAVE" ->
              IF params.node_id \in DOMAIN w.nodes
              THEN leave_network(w, params.node_id)
              ELSE w
         [] event.type = "FILE_PUBLISH" ->
              IF params.node_id # None /\ params.file_id # None
                 /\ params.node_id \in DOMAIN w.nodes
              THEN publish_file(w, params.node_id, params.file_id, now)
              ELSE w
         [] event.type = "FILE_RETRIEVE" ->
              IF params.node_id # None /\ params.file_id # None
                 /\ params.node_id \in DOMAIN w.nodes
              THEN retrieve_file(w, params.node_id, params.file_id, now)
              ELSE w
         [] event.type = "MESSAGE_RECEIVED" ->
              emit_message_received(w, event, ctr, now, w.listeners)
         [] OTHER -> w

\* the nodes whose handle_event is a callback of the emitter for
\* SIMULATION_TICK: EventEmitter.on is called for MESSAGE_RECEIVED only
\* (register_node), so the emitter holds none
tick_listeners(w) == <<>>

\* EventEmitter.emit for SIMULATION_TICK: each callback in turn
RECURSIVE emit_tick(_, _, _, _)
emit_tick(w, event, callbacks, now) ==
    IF callbacks = <<>> \/ w.err # NoError THEN w
    ELSE emit_tick(handle_event(w, Head(callbacks), event, now), event,
                   Tail(callbacks), now)

\* SimulationClock.set_time as run() calls it: the tick callback
\* DHTSimulator._on_clock_tick runs when the time changes
set_time(w, previous_time, time) ==
    IF time # previous_time
    THEN emit_tick(w, Event("SIMULATION_TICK", time, [time |-> time]),
                   tick_listeners(w), time)
    ELSE w

\* ------------------------------------------------------------------------
\* State
\* ------------------------------------------------------------------------

VARIABLES
    pc,               \* where main() / DHTSimulator.run() stands
    config,           \* the Config values the run uses
    clock,            \* SimulationClock.current_time
    next_event_time,  \* run()'s local next_event_time
    nodes,            \* DHTSimulator.nodes
    listeners,        \* number of MESSAGE_RECEIVED callbacks of the emitter
    queue,            \* EventQueue._queue
    counter,          \* EventQueue._counter
    txn,              \* the next fresh transaction id
    script,           \* the entries of the events file main() has not read yet
    rng,              \* the values the seeded RNG yields, as far as they are fixed
    drawn,            \* how many send_message calls have drawn from the RNG
    popped,           \* history: the entries popped by run(), in order
    handled,          \* history: the handle_message calls
    origin,           \* history: response entry -> request
    sends,            \* history: the send_message calls
    table,            \* the RoutingTable under test, when one is called directly
    last,             \* the last direct call on a table or node, and its result
    calls,            \* how many direct calls have been made on the node under test
    twin              \* the simulator of a second, independent run of the same
                      \* scenario with the same seed, when two runs are compared

simVars == <<pc, config, clock, next_event_time, nodes, listeners, queue, counter, txn,
             script, rng, drawn, popped, handled, origin, sends>>

rtVars == <<table, last, calls, twin>>

vars == <<pc, config, clock, next_event_time, nodes, listeners, queue, counter, txn,
          script, rng, drawn, popped, handled, origin, sends, table, last, calls, twin>>

\* ------------------------------------------------------------------------
\* Scenario values
\* ------------------------------------------------------------------------

\* run(max_time)
MaxTime == 6

\* the seeded RNG's stream repeats with this period
RngPeriod == 2

\* the seed node and two peers; from the seed both peers fall in bucket 2
SeedId == <<1>>

AddressOf(node_id) == <<10, 0, 0>> \o node_id

\* the scenario events of the events file
ScenarioEvent(kind, node_id, file_id, time) ==
    [kind |-> kind, node_id |-> node_id, file_id |-> file_id, time |-> time]

Scenario ==
    <<ScenarioEvent("NODE_JOIN", <<4>>, None, 0),
      ScenarioEvent("NODE_JOIN", <<5>>, None, 1),
      ScenarioEvent("FILE_PUBLISH", <<4>>, <<6>>, 3),
      ScenarioEvent("FILE_RETRIEVE", <<5>>, <<6>>, 3),
      ScenarioEvent("NODE_LEAVE", <<4>>, None, 3)>>

\* the entries of s at the indices in keep, in order
RECURSIVE Pick(_, _, _)
Pick(s, keep, i) ==
    IF i > Len(s) THEN <<>>
    ELSE (IF i \in keep THEN <<s[i]>> ELSE <<>>) \o Pick(s, keep, i + 1)

\* the events files tried: every selection of the scenario's events
ScenarioFiles == {Pick(Scenario, keep, 1) : keep \in SUBSET (1..Len(Scenario))}

SimConfigs ==
    {[k_value |-> k, id_bits |-> IdBits, max_time |-> MaxTime] : k \in {1, 2}}

World(rnd) ==
    [nodes |-> nodes, listeners |-> listeners, queue |-> queue, counter |-> counter,
     txn |-> txn, rnd |-> rnd, used |-> 0, err |-> NoError,
     base_packet_loss |-> IF "base_packet_loss" \in DOMAIN config
                          THEN config.base_packet_loss ELSE BasePacketLoss,
     handled |-> handled, origin |-> origin, sends |-> sends]

Commit(w) ==
    /\ nodes' = w.nodes
    /\ listeners' = w.listeners
    /\ queue' = w.queue
    /\ counter' = w.counter
    /\ txn' = w.txn
    /\ handled' = w.handled
    /\ origin' = w.origin
    /\ sends' = w.sends

\* no call has been made on the routing table under test
RTInitial == [op |-> "none"]

\* no second run is being compared
NoTwin == <<>>

\* DHTSimulator.__init__, and the histories empty
Constructed ==
    /\ clock = 0
    /\ next_event_time = NoTime
    /\ nodes = EmptyDict
    /\ listeners = 0
    /\ queue = <<>>
    /\ counter = 0
    /\ txn = 1
    /\ rng = <<>>
    /\ drawn = 0
    /\ popped = <<>>
    /\ handled = <<>>
    /\ origin = EmptyDict
    /\ sends = <<>>

\* main() has built the simulator and loaded the events file
SimInit ==
    /\ pc = "main"
    /\ config \in SimConfigs
    /\ script \in ScenarioFiles
    /\ Constructed
    /\ table = RoutingTable(SeedId, config.k_value, config.id_bits)
    /\ last = RTInitial
    /\ calls = 0
    /\ twin = NoTwin

\* ------------------------------------------------------------------------
\* main.py: the scenario driver
\* ------------------------------------------------------------------------

\* DHTSimulator.create_seed_node
create_seed_node ==
    /\ pc = "main"
    /\ LET seed_node == DHTNode(SeedId, AddressOf(SeedId), config.k_value, config.id_bits)
           w1 == register_node(World(<<>>), seed_node)
           w2 == schedule_event(w1, Event("NODE_JOIN", 0,
                                          [node_id |-> SeedId, seed_node_id |-> None]))
       IN Commit(w2)
    /\ pc' = "events"
    /\ UNCHANGED <<config, clock, next_event_time, script, rng, drawn, popped>>
    /\ UNCHANGED rtVars

\* main(): a NODE_JOIN scenario event creates the node and schedules its join
main_node_join ==
    /\ pc = "events"
    /\ script # <<>>
    /\ Head(script).kind = "NODE_JOIN"
    /\ LET e == Head(script)
           node == DHTNode(e.node_id, AddressOf(e.node_id), config.k_value, config.id_bits)
           w1 == register_node(World(<<>>), node)
           w2 == schedule_event(w1, Event("NODE_JOIN", e.time,
                                          [node_id |-> e.node_id, seed_node_id |-> SeedId]))
       IN Commit(w2)
    /\ script' = Tail(script)
    /\ UNCHANGED <<pc, config, clock, next_event_time, rng, drawn, popped>>
    /\ UNCHANGED rtVars

\* main(): a NODE_LEAVE scenario event
main_node_leave ==
    /\ pc = "events"
    /\ script # <<>>
    /\ Head(script).kind = "NODE_LEAVE"
    /\ LET e == Head(script)
       IN Commit(schedule_event(World(<<>>),
                                Event("NODE_LEAVE", e.time, [node_id |-> e.node_id])))
    /\ script' = Tail(script)
    /\ UNCHANGED <<pc, config, clock, next_event_time, rng, drawn, popped>>
    /\ UNCHANGED rtVars

\* main(): a FILE_PUBLISH or FILE_RETRIEVE scenario event
main_file_event ==
    /\ pc = "events"
    /\ script # <<>>
    /\ Head(script).kind \in {"FILE_PUBLISH", "FILE_RETRIEVE"}
    /\ LET e == Head(script)
       IN Commit(schedule_event(World(<<>>),
                                Event(e.kind, e.time,
                                      [node_id |-> e.node_id, file_id |-> e.file_id])))
    /\ script' = Tail(script)
    /\ UNCHANGED <<pc, config, clock, next_event_time, rng, drawn, popped>>
    /\ UNCHANGED rtVars

\* ------------------------------------------------------------------------
\* DHTSimulator.run
\* ------------------------------------------------------------------------

\* lines 32-36: schedule SIMULATION_START and enter the main loop
run_start ==
    /\ pc = "events"
    /\ script = <<>>
    /\ Commit(schedule_event(World(<<>>), Event("SIMULATION_START", clock, EmptyDict)))
    /\ pc' = "loop"
    /\ UNCHANGED <<config, clock, next_event_time, script, rng, drawn, popped>>
    /\ UNCHANGED rtVars

\* lines 43-52: the next event's time is within max_time: set the clock, which
\* notifies the tick callback when the time changes
run_set_clock ==
    /\ pc = "loop"
    /\ has_events(queue)
    /\ config.max_time = NoTime \/ peek_time(queue) <= config.max_time
    /\ next_event_time' = peek_time(queue)
    /\ clock' = peek_time(queue)
    /\ Commit(set_time(World(<<>>), clock, peek_time(queue)))
    /\ pc' = IF set_time(World(<<>>), clock, peek_time(queue)).err # NoError
             THEN "crashed" ELSE "drain"
    /\ UNCHANGED <<config, script, rng, drawn, popped>>
    /\ UNCHANGED rtVars

\* lines 43, 48-49: the queue is empty or the next event is past max_time
run_loop_exit ==
    /\ pc = "loop"
    /\ \/ ~has_events(queue)
       \/ config.max_time # NoTime /\ peek_time(queue) > config.max_time
    /\ pc' = "end"
    /\ UNCHANGED <<config, clock, next_event_time, nodes, listeners, queue, counter, txn,
                   script, rng, drawn, popped, handled, origin, sends>>
    /\ UNCHANGED rtVars

\* the record of a popped entry: at is the queue counter when it was popped
Popped(entry, processed) ==
    [time |-> entry[1], ctr |-> entry[2], type |-> entry[3].type,
     processed |-> processed, at |-> counter]

\* the state after _process_event left the world w
Processed(w, entry) ==
    /\ Commit(w)
    /\ clock' = entry[3].time
    /\ popped' = Append(popped, Popped(entry, TRUE))
    /\ pc' = IF w.err # NoError THEN "crashed" ELSE pc

\* _process_event(event) for the popped entry e.entry, the RNG yielding rnd
Process(e, rnd) ==
    process_event([World(rnd) EXCEPT !.queue = e.queue], e.entry[3], e.entry[2])

\* pop_event and _process_event(event), the RNG yielding rnd
PopAndProcess(rnd) == Processed(Process(heappop(queue), rnd), Head(queue))

\* how many send_message calls that reach the RNG the next event causes
DrawsNeeded == Process(heappop(queue), <<>>).used

\* the RNG's stream has period RngPeriod: its i-th draw is rng[StreamIndex(i)]
StreamIndex(i) == ((i - 1) % RngPeriod) + 1

\* how many of the next n draws are not fixed yet
FreshDraws(n) ==
    IF drawn + n < RngPeriod
    THEN (IF drawn + n > Len(rng) THEN drawn + n - Len(rng) ELSE 0)
    ELSE RngPeriod - Len(rng)

\* pop and process the next event, which draws n times from the RNG
DispatchDrawing(n) ==
    \E more \in [1..FreshDraws(n) -> Draws] :
        /\ rng' = rng \o more
        /\ drawn' = drawn + n
        /\ PopAndProcess([i \in 1..n |-> (rng \o more)[StreamIndex(drawn + i)]])

\* lines 55-57: one turn of the inner loop.  The draws this turn consumes are
\* the next ones of the RNG's stream; those not fixed yet are chosen now.
run_dispatch ==
    /\ pc = "drain"
    /\ has_events(queue)
    /\ peek_time(queue) = next_event_time
    /\ DispatchDrawing(DrawsNeeded)
    /\ UNCHANGED <<config, next_event_time, script>>
    /\ UNCHANGED rtVars

\* line 55: no event is left for this time
run_drain_exit ==
    /\ pc = "drain"
    /\ ~(has_events(queue) /\ peek_time(queue) = next_event_time)
    /\ pc' = "loop"
    /\ UNCHANGED <<config, clock, next_event_time, nodes, listeners, queue, counter, txn,
                   script, rng, drawn, popped, handled, origin, sends>>
    /\ UNCHANGED rtVars

\* lines 60-64: schedule SIMULATION_END
run_end ==
    /\ pc = "end"
    /\ Commit(schedule_event(World(<<>>), Event("SIMULATION_END", clock, EmptyDict)))
    /\ pc' = "final"
    /\ UNCHANGED <<config, clock, next_event_time, script, rng, drawn, popped>>
    /\ UNCHANGED rtVars

\* a faulty final loop: every remaining event is processed
run_final_pop_all ==
    /\ pc = "final"
    /\ has_events(queue)
    /\ PopAndProcess(<<>>)
    /\ UNCHANGED <<config, next_event_time, script, rng, drawn>>
    /\ UNCHANGED rtVars

\* lines 67-70: pop every remaining event, processing SIMULATION_END only
run_final_pop ==
    /\ pc = "final"
    /\ has_events(queue)
    /\ IF Head(queue)[3].type = "SIMULATION_END"
       THEN PopAndProcess(<<>>)
       ELSE /\ queue' = Tail(queue)
            /\ popped' = Append(popped, Popped(Head(queue), FALSE))
            /\ UNCHANGED <<pc, clock, nodes, listeners, counter, txn, handled, origin,
                           sends>>
    /\ UNCHANGED <<config, next_event_time, script, rng, drawn>>
    /\ UNCHANGED rtVars

\* line 67: the queue is empty, run() returns
run_return ==
    /\ pc = "final"
    /\ ~has_events(queue)
    /\ pc' = "done"
    /\ UNCHANGED <<config, clock, next_event_time, nodes, listeners, queue, counter, txn,
                   script, rng, drawn, popped, handled, origin, sends>>
    /\ UNCHANGED rtVars

\* ------------------------------------------------------------------------
\* tests/test_routing_table_bak.py: one RoutingTable, called directly
\* ------------------------------------------------------------------------

\* the ids passed to the table under test: its own id, three ids of its
\* bucket 2 and one of its bucket 7
TableIds == {SeedId, <<4>>, <<5>>, <<6>>, <<129>>}

\* the last_seen values passed to the table under test
TableSeens == {0, 1}

\* the targets find_closest_nodes is called with: two contacts' ids and an
\* id that is never a contact
FindTargets == {<<4>>, <<129>>, <<7>>}

\* is node_id a contact of rt
IsPresent(rt, node_id) == \E i \in 1..Len(rt.buckets) : contains(rt.buckets[i], node_id)

\* setUp: RoutingTable(self.node_id), for each k_value up to MaxK
TableInit ==
    /\ pc = "table"
    /\ config \in {[k_value |-> k, id_bits |-> IdBits, max_time |-> MaxTime] : k \in 1..MaxK}
    /\ script = <<>>
    /\ Constructed
    /\ table = RoutingTable(SeedId, config.k_value, config.id_bits)
    /\ last = RTInitial
    /\ calls = 0
    /\ twin = NoTwin

\* routing_table.update(node_id, address, last_seen), with the node's address
test_update ==
    /\ pc = "table"
    /\ \E node_id \in TableIds, last_seen \in TableSeens :
         LET r == update(table, node_id, AddressOf(node_id), last_seen)
         IN /\ table' = r.rt
            /\ last' = [op |-> "update", node_id |-> node_id,
                        known |-> IsPresent(table, node_id), result |-> r.result]
    /\ UNCHANGED <<calls, twin>>
    /\ UNCHANGED simVars

\* routing_table.remove_node(node_id)
test_remove_node ==
    /\ pc = "table"
    /\ \E node_id \in TableIds :
         LET r == remove_node(table, node_id)
         IN /\ table' = r.rt
            /\ last' = [op |-> "remove_node", node_id |-> node_id, result |-> r.result]
    /\ UNCHANGED <<calls, twin>>
    /\ UNCHANGED simVars

\* routing_table.find_closest_nodes(target_id, count); count = k_value is also
\* the call without a count (lines 102-103)
test_find_closest_nodes ==
    /\ pc = "table"
    /\ \E target_id \in FindTargets, count \in 0..MaxK :
         last' = [op |-> "find_closest_nodes", node_id |-> target_id, count |-> count,
                  result |-> find_closest_nodes(table, target_id, count)]
    /\ UNCHANGED <<table, calls, twin>>
    /\ UNCHANGED simVars

\* ------------------------------------------------------------------------
\* tests/test_dht_node.py: one DHTNode, called directly.  The node is
\* registered with a DHTSimulator that also knows one peer; nothing is
\* dispatched, so what the node sends stays in the event queue.
\* ------------------------------------------------------------------------

\* how many calls are made on the node under test
MaxCalls == 4

\* the node under test, and an id no node is registered under
NodeId == <<4>>
UnknownId == <<9>>

\* the file published and retrieved
FileId == <<6>>

\* the seed ids join_network is called with: none, the node's own id, the
\* registered peer and an id unknown to the simulator
JoinSeeds == {None, NodeId, SeedId, UnknownId}

\* the RNG's draws for a call: one that delivers and one that drops
NodeDraws == {DefaultDraw, [delay |-> MaxDelay, variation |-> 50, u |-> 100]}

\* a request from the peer, as _on_message_received rebuilds it
PeerRequest(msg_type, content) ==
    [Message(msg_type, SeedId, NodeId, content, 0) EXCEPT !.send_time = 0, !.delivery_time = 1]

PeerRequests ==
    {PeerRequest("ping", [ping |-> "ping", retry_count |-> 0]),
     PeerRequest("find_node", [target |-> to_hex(NodeId)]),
     PeerRequest("find_value", [key |-> to_hex(FileId)]),
     PeerRequest("store", [key |-> to_hex(FileId), provider |-> to_hex(AddressOf(SeedId))])}

\* the peer's response to the request recorded as info under transaction_id
PeerResponse(transaction_id, info) ==
    LET answer(msg_type, content) ==
            [Message(msg_type, SeedId, NodeId, content, transaction_id)
                EXCEPT !.send_time = 0, !.delivery_time = 1]
    IN CASE info.type = "ping" -> answer("pong", [pong |-> "pong", retry_count |-> 0])
         [] info.type = "find_value" ->
               answer("find_value_response",
                      [found |-> TRUE, key |-> to_hex(FileId),
                       providers |-> <<[address |-> to_hex(AddressOf(SeedId)),
                                        last_seen |-> 0]>>])
         [] info.type = "store" -> answer("store_response", [status |-> "success"])
         [] OTHER ->
               answer("find_node_response",
                      [nodes |-> NodeList(<<Contact(SeedId, AddressOf(SeedId), 0),
                                            Contact(NodeId, AddressOf(NodeId), 0),
                                            Contact(<<5>>, AddressOf(<<5>>), 0),
                                            Contact(<<7>>, AddressOf(<<7>>), 0),
                                            Contact(<<2>>, AddressOf(<<2>>), 0)>>)])

\* STORE requests of the peer delivered at time delivery_time, naming the
\* peer or a third node as the provider
StoreRequests(delivery_time) ==
    {[PeerRequest("store", [key |-> to_hex(FileId), provider |-> to_hex(AddressOf(id))])
         EXCEPT !.delivery_time = delivery_time] : id \in {SeedId, <<5>>}}

\* the peer's answer to a FIND_VALUE it has no provider for: the contacts it
\* knows, the asking node among them
PeerNotFound(transaction_id) ==
    [Message("find_value_response", SeedId, NodeId,
             [found |-> FALSE, key |-> to_hex(FileId),
              nodes |-> NodeList(<<Contact(NodeId, AddressOf(NodeId), 0),
                                   Contact(<<2>>, AddressOf(<<2>>), 0)>>)],
             transaction_id)
        EXCEPT !.send_time = 0, !.delivery_time = 1]

\* responses of the peer under a transaction id the node never used: late or
\* duplicated answers, one of each type
StrayResponses ==
    {PeerResponse(0, [type |-> t]) : t \in {"ping", "find_node", "find_value", "store"}}
    \cup {PeerNotFound(0)}

\* the messages handed to the node: the peer's requests, its responses to the
\* node's pending requests, and stray responses
Incoming(node) ==
    PeerRequests \cup StrayResponses \cup
    {PeerResponse(t, node.pending_responses[t]) : t \in DOMAIN node.pending_responses}
    \cup {PeerNotFound(t) : t \in {x \in DOMAIN node.pending_responses :
                                      node.pending_responses[x].type = "find_value"}}

\* setUp: a simulator, a registered peer, and DHTNode(node_id, address, simulator)
NodeInit ==
    /\ pc = "node"
    /\ config = [k_value |-> MaxK, id_bits |-> IdBits, max_time |-> MaxTime]
    /\ script = <<>>
    /\ clock = 0
    /\ next_event_time = NoTime
    /\ nodes = (NodeId :> DHTNode(NodeId, AddressOf(NodeId), MaxK, IdBits))
                 @@ (SeedId :> DHTNode(SeedId, AddressOf(SeedId), MaxK, IdBits))
    /\ listeners = 2
    /\ queue = <<>>
    /\ counter = 0
    /\ txn = 1
    /\ rng = <<>>
    /\ drawn = 0
    /\ popped = <<>>
    /\ handled = <<>>
    /\ origin = EmptyDict
    /\ sends = <<>>
    /\ table = RoutingTable(SeedId, MaxK, IdBits)
    /\ last = RTInitial
    /\ calls = 0
    /\ twin = NoTwin

\* the state after a call on the node left the world w: before is the node
\* as it was, scheduled and sent count the schedule_event and send_message
\* calls it made, response is what it returned
NodeCalled(w, op, arg, response) ==
    /\ Commit(w)
    /\ last' = [op |-> op, arg |-> arg, before |-> nodes[NodeId],
                scheduled |-> w.counter - counter, sent |-> Len(w.sends) - Len(sends),
                response |-> response, err |-> w.err]
    /\ calls' = calls + 1
    /\ UNCHANGED <<pc, config, clock, next_event_time, script, rng, drawn, popped, table,
                   twin>>

\* node.join_network(seed_node_id)
test_join_network ==
    /\ pc = "node"
    /\ calls < MaxCalls
    /\ \E seed_node_id \in JoinSeeds, d \in NodeDraws :
         NodeCalled(join_network(World(<<d>>), NodeId, seed_node_id, clock),
                    "join_network", seed_node_id, <<>>)

\* node.leave_network()
test_leave_network ==
    /\ pc = "node"
    /\ calls < MaxCalls
    /\ NodeCalled(leave_network(World(<<>>), NodeId), "leave_network", None, <<>>)

\* node.publish_file(file_id)
test_publish_file ==
    /\ pc = "node"
    /\ calls < MaxCalls
    /\ \E d \in NodeDraws :
         NodeCalled(publish_file(World(<<d, d>>), NodeId, FileId, clock),
                    "publish_file", FileId, <<>>)

\* node.retrieve_file(file_id)
test_retrieve_file ==
    /\ pc = "node"
    /\ calls < MaxCalls
    /\ \E d \in NodeDraws :
         NodeCalled(retrieve_file(World(<<d, d>>), NodeId, FileId, clock),
                    "retrieve_file", FileId, <<>>)

\* the state after node.handle_message(message) returned r
NodeHandled(r, message) == NodeCalled(r.w, "handle_message", message, r.response)

\* node.handle_message(message)
test_handle_message ==
    /\ pc = "node"
    /\ calls < MaxCalls
    /\ \E message \in Incoming(nodes[NodeId]) \cup StoreRequests(calls + 1), d \in NodeDraws :
         NodeHandled(handle_message(World(<<d, d>>), NodeId, message, clock), message)

\* the messages handed to send_message: from the node or from an id no node
\* is registered under, to the peer or to such an id
DirectSends ==
    {Message("ping", source_id, target_id, [ping |-> "ping", retry_count |-> 0], 0) :
        source_id \in {NodeId, UnknownId}, target_id \in {SeedId, UnknownId}}

\* simulator.send_message(message)
test_send_message ==
    /\ pc = "node"
    /\ calls < MaxCalls
    /\ \E message \in DirectSends, d \in NodeDraws :
         NodeCalled(send_message(World(<<d>>), message, NoTime, clock),
                    "send_message", message, <<>>)

NodeNext ==
    \/ test_send_message
    \/ test_join_network
    \/ test_leave_network
    \/ test_publish_file
    \/ test_retrieve_file
    \/ test_handle_message

SpecNode == NodeInit /\ [][NodeNext]_vars

\* ------------------------------------------------------------------------
\* tests/test_dht_node.py: the PING bookkeeping of one DHTNode.  The node
\* pings the registered peer, the test moves the clock and hands the node the
\* tick, and hands it the peer's PING and the peer's PONGs to the PINGs that
\* were delivered.
\* ------------------------------------------------------------------------

\* how many calls are made on the node under test
MaxPingCalls == 6

\* how far the test moves the clock before a tick: the interval of the
\* timeout check (line 97) and PING_TIMEOUT
TickSteps == {100, PING_TIMEOUT}

\* setUp, as for the other direct calls
PingInit ==
    /\ pc = "ping"
    /\ config = [k_value |-> MaxK, id_bits |-> IdBits, max_time |-> MaxTime]
    /\ script = <<>>
    /\ clock = 0
    /\ next_event_time = NoTime
    /\ nodes = (NodeId :> DHTNode(NodeId, AddressOf(NodeId), MaxK, IdBits))
                 @@ (SeedId :> DHTNode(SeedId, AddressOf(SeedId), MaxK, IdBits))
    /\ listeners = 2
    /\ queue = <<>>
    /\ counter = 0
    /\ txn = 1
    /\ rng = <<>>
    /\ drawn = 0
    /\ popped = <<>>
    /\ handled = <<>>
    /\ origin = EmptyDict
    /\ sends = <<>>
    /\ table = RoutingTable(SeedId, MaxK, IdBits)
    /\ last = RTInitial
    /\ calls = 0
    /\ twin = NoTwin

\* the state after a call made on the node at time now left the world w
PingCalled(w, op, arg, response, now) ==
    /\ Commit(w)
    /\ last' = [op |-> op, arg |-> arg, before |-> nodes[NodeId],
                scheduled |-> w.counter - counter, sent |-> Len(w.sends) - Len(sends),
                response |-> response, err |-> w.err]
    /\ calls' = calls + 1
    /\ clock' = now
    /\ UNCHANGED <<pc, config, next_event_time, script, rng, drawn, popped, table, twin>>

\* node.join_network(): the node goes online, no seed to ask
ping_join_network ==
    /\ pc = "ping"
    /\ calls < MaxPingCalls
    /\ PingCalled(join_network(World(<<>>), NodeId, None, clock), "join_network", None,
                  <<>>, clock)

\* node._send_ping(peer)
ping_send_ping ==
    /\ pc = "ping"
    /\ calls < MaxPingCalls
    /\ \E d \in NodeDraws :
         PingCalled(send_ping(World(<<d>>), NodeId, SeedId, NoTime, clock), "send_ping",
                    SeedId, <<>>, clock)

\* simulator.clock.set_time(now); node.handle_event(the tick)
ping_handle_event ==
    /\ pc = "ping"
    /\ calls < MaxPingCalls
    /\ \E step \in TickSteps, d \in NodeDraws :
         PingCalled(handle_event(World(<<d, d>>), NodeId,
                                 Event("SIMULATION_TICK", clock + step,
                                       [time |-> clock + step]), clock + step),
                    "handle_event", clock + step, <<>>, clock + step)

\* the PING of the send_message call noted as note, as the peer receives it
Delivered(note) ==
    [Message(note.type, note.source_id, note.target_id, note.content, note.transaction_id)
        EXCEPT !.send_time = note.send_time,
               !.delivery_time = DeliveryTime(note.send_time, note.delay)]

\* the peer's PONG to a delivered PING: what its _handle_ping returns, delivered
\* to the node after the shortest delay
PongFor(note) ==
    LET response == handle_ping(World(<<>>), SeedId, Delivered(note)).response[1]
    IN [response EXCEPT !.delivery_time = DeliveryTime(response.send_time, MinDelay)]

\* the PONGs on their way to the node, and a PING of the peer
PingIncoming ==
    {PongFor(sends[i]) : i \in {j \in 1..Len(sends) :
                                   sends[j].type = "ping" /\ sends[j].outcome = "received"}}
    \cup {[PeerRequest("ping", [ping |-> "ping", retry_count |-> 0])
              EXCEPT !.send_time = clock, !.delivery_time = clock + MinDelay]}

\* node.handle_message(message) at the message's delivery time
ping_handle_message ==
    /\ pc = "ping"
    /\ calls < MaxPingCalls
    /\ \E message \in PingIncoming :
         /\ message.delivery_time >= clock
         /\ \A r \in {handle_message(World(<<>>), NodeId, message, message.delivery_time)} :
               PingCalled(r.w, "handle_message", message, r.response,
                          message.delivery_time)

PingNext ==
    \/ ping_join_network
    \/ ping_send_ping
    \/ ping_handle_event
    \/ ping_handle_message

SpecPing == PingInit /\ [][PingNext]_vars

\* ------------------------------------------------------------------------
\* main.py run on named events files, the network losing no packet
\* ------------------------------------------------------------------------

\* the peers A and B of the events files
PeerA == <<4>>
PeerB == <<5>>

\* the seed node is online from time 0 in each file (create_seed_node)

\* A joins through the seed, publishes F and retrieves it
SeedOnlyEvents ==
    <<ScenarioEvent("NODE_JOIN", PeerA, None, 10),
      ScenarioEvent("FILE_PUBLISH", PeerA, FileId, 50),
      ScenarioEvent("FILE_RETRIEVE", PeerA, FileId, 100)>>

\* A and B join through the seed, A publishes F, B retrieves it later
TwoHopEvents ==
    <<ScenarioEvent("NODE_JOIN", PeerA, None, 10),
      ScenarioEvent("NODE_JOIN", PeerB, None, 20),
      ScenarioEvent("FILE_PUBLISH", PeerA, FileId, 50),
      ScenarioEvent("FILE_RETRIEVE", PeerB, FileId, 100)>>

\* A joins and leaves; B joins, learns of A from the seed and PINGs it; the
\* seed leaves long after
PingTimeoutEvents ==
    <<ScenarioEvent("NODE_JOIN", PeerA, None, 10),
      ScenarioEvent("NODE_LEAVE", PeerA, None, 20),
      ScenarioEvent("NODE_JOIN", PeerB, None, 30),
      ScenarioEvent("NODE_LEAVE", SeedId, None, 200)>>

\* A joins through the seed and retrieves F, which no node has published
LookupEvents ==
    <<ScenarioEvent("NODE_JOIN", PeerA, None, 10),
      ScenarioEvent("FILE_RETRIEVE", PeerA, FileId, 50)>>

\* simulation.events_file -> the events load_simulation_events returns
EventsFiles ==
    [seed_only |-> SeedOnlyEvents, two_hop |-> TwoHopEvents,
     ping_timeout |-> PingTimeoutEvents, lookup |-> LookupEvents]

\* simulation.max_time for the lookup file
LookupMaxTime == 60

\* simulation.max_time is None, as Config sets it, but for the lookup file
ScenarioConfigs ==
    {[k_value |-> k, id_bits |-> IdBits,
      max_time |-> IF f = "lookup" THEN LookupMaxTime ELSE NoTime, events_file |-> f] :
        k \in 1..MaxK, f \in DOMAIN EventsFiles}

\* the draws of one send_message call that lose no packet
LosslessDraws ==
    {d \in Draws :
        \A a, b \in {SeedId, PeerA, PeerB} :
            d.u >= calculate_packet_loss_rate(BasePacketLoss, AddressOf(a), AddressOf(b),
                                              d.variation)}

\* main() has built the simulator and loaded the events file; the random seed
\* is one whose stream loses no packet
ScenarioInit ==
    /\ pc = "main"
    /\ config \in ScenarioConfigs
    /\ script = EventsFiles[config.events_file]
    /\ clock = 0
    /\ next_event_time = NoTime
    /\ nodes = EmptyDict
    /\ listeners = 0
    /\ queue = <<>>
    /\ counter = 0
    /\ txn = 1
    /\ rng \in [1..RngPeriod -> LosslessDraws]
    /\ drawn = 0
    /\ popped = <<>>
    /\ handled = <<>>
    /\ origin = EmptyDict
    /\ sends = <<>>
    /\ table = RoutingTable(SeedId, config.k_value, config.id_bits)
    /\ last = RTInitial
    /\ calls = 0
    /\ twin = NoTwin

\* the draws of one send_message call tried under full loss: random() at
\* both ends of its range
LossDraws == [delay : {MinDelay, MaxDelay}, variation : Variations, u : {0, 999}]

\* main() has built the simulator and loaded the events file;
\* network.base_packet_loss is 1.05, so the computed loss rate is 1.0 for
\* every send
LossInit ==
    /\ pc = "main"
    /\ config \in {[k_value |-> MaxK, id_bits |-> IdBits, max_time |-> NoTime,
                    events_file |-> f, base_packet_loss |-> 1050] :
                      f \in DOMAIN EventsFiles}
    /\ script = EventsFiles[config.events_file]
    /\ clock = 0
    /\ next_event_time = NoTime
    /\ nodes = EmptyDict
    /\ listeners = 0
    /\ queue = <<>>
    /\ counter = 0
    /\ txn = 1
    /\ rng \in [1..RngPeriod -> LossDraws]
    /\ drawn = 0
    /\ popped = <<>>
    /\ handled = <<>>
    /\ origin = EmptyDict
    /\ sends = <<>>
    /\ table = RoutingTable(SeedId, config.k_value, config.id_bits)
    /\ last = RTInitial
    /\ calls = 0
    /\ twin = NoTwin

ScenarioNext ==
    \/ create_seed_node
    \/ main_node_join
    \/ main_node_leave
    \/ main_file_event
    \/ run_start
    \/ run_set_clock
    \/ run_loop_exit
    \/ run_dispatch
    \/ run_drain_exit
    \/ run_end
    \/ run_final_pop
    \/ run_return

SpecScenario == ScenarioInit /\ [][ScenarioNext]_vars

SpecLoss == LossInit /\ [][ScenarioNext]_vars

\* ------------------------------------------------------------------------
\* Two independent runs of main.py with the same seed and events file
\* ------------------------------------------------------------------------

\* the states the uuid4 source can be in when a run starts: uuid4 draws from
\* the operating system, not from the seeded RNG, and never repeats a value
UuidStates == {1, 101}

\* DHTSimulator.__init__, the uuid4 source in state uuid_state
Simulator(uuid_state) ==
    [nodes |-> EmptyDict, listeners |-> 0, queue |-> <<>>, counter |-> 0,
     txn |-> uuid_state, rnd |-> <<>>, used |-> 0, err |-> NoError,
     base_packet_loss |-> BasePacketLoss,
     handled |-> <<>>, origin |-> EmptyDict, sends |-> <<>>]

\* main(): lines 115-161, the loop over the events of the events file
RECURSIVE load_events(_, _, _)
load_events(w, k_value, events) ==
    IF events = <<>> THEN w
    ELSE LET e == Head(events)
             node == DHTNode(e.node_id, AddressOf(e.node_id), k_value, IdBits)
         IN load_events(
               CASE e.kind = "NODE_JOIN" ->
                      schedule_event(register_node(w, node),
                                     Event("NODE_JOIN", e.time,
                                           [node_id |-> e.node_id, seed_node_id |-> SeedId]))
                 [] e.kind = "NODE_LEAVE" ->
                      schedule_event(w, Event("NODE_LEAVE", e.time, [node_id |-> e.node_id]))
                 [] OTHER ->
                      schedule_event(w, Event(e.kind, e.time,
                                              [node_id |-> e.node_id, file_id |-> e.file_id])),
               k_value, Tail(events))

\* main() up to simulator.run(): the seed node created, the events loaded
Loaded(uuid_state, k_value, events) ==
    load_events(
        schedule_event(
            register_node(Simulator(uuid_state),
                          DHTNode(SeedId, AddressOf(SeedId), k_value, IdBits)),
            Event("NODE_JOIN", 0, [node_id |-> SeedId, seed_node_id |-> None])),
        k_value, events)

\* two runs are ready to dispatch their first event; the events file and the
\* seed (one whose stream loses no packet) are the same, the uuid4 source of
\* each run is in a state of its own
TwinInit ==
    /\ pc = "twin"
    /\ config \in {[k_value |-> MaxK, id_bits |-> IdBits, max_time |-> NoTime,
                    events_file |-> f] : f \in {"seed_only", "two_hop", "ping_timeout"}}
    /\ script = <<>>
    /\ clock = 0
    /\ next_event_time = NoTime
    /\ txn \in UuidStates
    /\ nodes = Loaded(txn, config.k_value, EventsFiles[config.events_file]).nodes
    /\ listeners = Loaded(txn, config.k_value, EventsFiles[config.events_file]).listeners
    /\ queue = Loaded(txn, config.k_value, EventsFiles[config.events_file]).queue
    /\ counter = Loaded(txn, config.k_value, EventsFiles[config.events_file]).counter
    /\ rng \in [1..RngPeriod -> LosslessDraws]
    /\ drawn = 0
    /\ popped = <<>>
    /\ handled = <<>>
    /\ origin = EmptyDict
    /\ sends = <<>>
    /\ table = RoutingTable(SeedId, config.k_value, config.id_bits)
    /\ last = RTInitial
    /\ calls = 0
    /\ twin \in {Loaded(u, config.k_value, EventsFiles[config.events_file]) :
                    u \in UuidStates}

\* the second run's simulator after it popped and processed its next event,
\* the RNG yielding rnd
TwinProcessed(rnd) ==
    process_event([twin EXCEPT !.queue = heappop(twin.queue).queue,
                               !.rnd = rnd, !.used = 0],
                  Head(twin.queue)[3], Head(twin.queue)[2])

\* both runs pop and process their next event; the seeded RNG yields the
\* same values in both
twin_dispatch ==
    /\ pc = "twin"
    /\ has_events(queue)
    /\ has_events(twin.queue)
    /\ DispatchDrawing(DrawsNeeded)
    /\ twin' = TwinProcessed([i \in 1..DrawsNeeded |-> rng[StreamIndex(drawn + i)]])
    /\ UNCHANGED <<config, next_event_time, script, table, last, calls>>

SpecTwin == TwinInit /\ [][twin_dispatch]_vars

\* ------------------------------------------------------------------------
\* The specification
\* ------------------------------------------------------------------------

Init == SimInit \/ TableInit

Next ==
    \/ create_seed_node
    \/ main_node_join
    \/ main_node_leave
    \/ main_file_event
    \/ run_start
    \/ run_set_clock
    \/ run_loop_exit
    \/ run_dispatch
    \/ run_drain_exit
    \/ run_end
    \/ run_final_pop
    \/ run_return
    \/ test_update
    \/ test_remove_node
    \/ test_find_closest_nodes

Spec == Init /\ [][Next]_vars

\* ------------------------------------------------------------------------
\* Properties
\* ------------------------------------------------------------------------

\* the routing tables in use: the one under test, or each node's
AllTables ==
    IF pc = "table" THEN {table} ELSE {nodes[n].routing_table : n \in DOMAIN nodes}

\* the ids update is tried with: those of the test, or the registered nodes'
CallIds == IF pc = "table" THEN TableIds ELSE DOMAIN nodes

\* no two entries of a contact list carry the same id
NoDuplicateIds(ns) == \A i, j \in 1..Len(ns) : i # j => ns[i].id # ns[j].id

\* the handle_message calls made for the queue entry numbered ctr
HandledOf(ctr) == {k \in 1..Len(handled) : handled[k].ctr = ctr}

\* the bucket of rt that get_bucket_index assigns to node_id (not the own id)
BucketFor(rt, node_id) == rt.buckets[get_bucket_index(rt.node_id, node_id) + 1]

\* C1: every MESSAGE_RECEIVED event the main loop dispatches is handed to the
\* target node's handle_message exactly once, and no request is answered by
\* more than one response message.
C1_DeliveredExactlyOnce ==
    /\ \A i \in 1..Len(popped) :
         (popped[i].processed /\ popped[i].type = "MESSAGE_RECEIVED")
            => Cardinality(HandledOf(popped[i].ctr)) = 1
    /\ \A c1, c2 \in DOMAIN origin :
         origin[c1].transaction_id = origin[c2].transaction_id => c1 = c2

\* C2: two events with the same time are popped in the order in which they
\* were scheduled (by increasing queue counter), also when the later one was
\* scheduled for the current time while that time was being drained.
C2_SameTimeFifo ==
    \A i, j \in 1..Len(popped) :
        (i < j /\ popped[i].time = popped[j].time) => popped[i].ctr < popped[j].ctr

\* an event was scheduled for the current time after another event of that time
\* had been popped, and both were dispatched
C2_Witness ==
    \E i, j \in 1..Len(popped) :
        /\ i < j
        /\ popped[i].time = popped[j].time
        /\ popped[i].processed /\ popped[j].processed
        /\ popped[j].ctr >= popped[i].at

\* C3: in every step the clock does not move backwards, every event the step
\* schedules has a time not earlier than the clock, and an event the step
\* dispatches has a time not earlier than any event dispatched before.
C3_TimeNeverGoesBack ==
    [][/\ clock' >= clock
       /\ \A k \in 1..Len(queue') :
            queue'[k][2] >= counter => queue'[k][1] >= clock'
       /\ (Len(popped') > Len(popped) /\ popped'[Len(popped')].processed)
            => \A i \in 1..Len(popped) :
                 popped[i].processed => popped[i].time <= popped'[Len(popped')].time
      ]_vars

\* a message sent during the run was dispatched at a later time than an
\* earlier event, with the clock standing at its time
C3_Witness ==
    \E i, j \in 1..Len(popped) :
        /\ i < j
        /\ popped[i].processed /\ popped[j].processed
        /\ popped[j].type = "MESSAGE_RECEIVED"
        /\ popped[i].time < popped[j].time
        /\ clock = popped[j].time

\* C4: every delivered response carries the transaction_id of the request it
\* answers, its source is the request's target and its target the request's
\* source.
C4_ResponseMatchesRequest ==
    \A k \in 1..Len(handled) :
        handled[k].ctr \in DOMAIN origin =>
            LET response == handled[k].message
                request == origin[handled[k].ctr]
            IN /\ response.transaction_id = request.transaction_id
               /\ response.source_id = request.target_id
               /\ response.target_id = request.source_id

\* a FIND_NODE_RESPONSE was delivered to the node that sent the FIND_NODE
C4_Witness ==
    \E k \in 1..Len(handled) :
        /\ handled[k].ctr \in DOMAIN origin
        /\ handled[k].message.type = "find_node_response"
        /\ origin[handled[k].ctr].type = "find_node"
        /\ handled[k].node = origin[handled[k].ctr].source_id

\* C5: every bucket of every routing table holds at most k_value contacts and
\* no two contacts with the same id.
C5_BucketsBounded ==
    \A rt \in AllTables : \A b \in 1..Len(rt.buckets) :
        /\ Len(rt.buckets[b].nodes) <= rt.k_value
        /\ NoDuplicateIds(rt.buckets[b].nodes)

\* an online node handled a message whose source is no contact of it while
\* the source's bucket is full
C5_Witness ==
    \E k \in 1..Len(handled) :
        LET n == handled[k].node
            source_id == handled[k].message.source_id
        IN /\ nodes[n].is_online
           /\ source_id # n
           /\ ~IsPresent(nodes[n].routing_table, source_id)
           /\ Len(BucketFor(nodes[n].routing_table, source_id).nodes)
                 = nodes[n].routing_table.k_value

\* C6: every contact c stored in bucket i (counted from 0) of a routing table
\* satisfies get_bucket_index(self_id, c.id) = i, and i is in 0..id_bits-1.
C6_ContactsInTheirBucket ==
    \A rt \in AllTables : \A b \in 1..Len(rt.buckets) :
        \A c \in Range(rt.buckets[b].nodes) :
            /\ get_bucket_index(rt.node_id, c.id) = b - 1
            /\ b - 1 \in 0..(rt.id_bits - 1)

\* some routing table holds contacts in two different buckets
C6_Witness ==
    \E rt \in AllTables : \E b1, b2 \in 1..Len(rt.buckets) :
        b1 # b2 /\ rt.buckets[b1].nodes # <<>> /\ rt.buckets[b2].nodes # <<>>

\* the addresses a routing-table call is tried with
CallAddresses == {<<127, 0, 0, 1>>, <<10, 0, 0, 2>>}

\* C7: no routing table holds its own node's id, and update with the own id
\* returns false and leaves the table as it is.
C7_SelfNeverStored ==
    \A rt \in AllTables :
        /\ ~IsPresent(rt, rt.node_id)
        /\ \A address \in CallAddresses \cup {rt.node_id}, last_seen \in TableSeens :
             update(rt, rt.node_id, address, last_seen) = [rt |-> rt, result |-> FALSE]

\* an online node with a non-empty routing table handled a FIND_NODE_RESPONSE
\* whose node list names the node itself
C7_Witness ==
    \E k \in 1..Len(handled) :
        LET n == handled[k].node
            m == handled[k].message
        IN /\ m.type = "find_node_response"
           /\ \E i \in 1..Len(m.content.nodes) : from_hex(m.content.nodes[i].id) = n
           /\ nodes[n].is_online
           /\ get_all_nodes(nodes[n].routing_table) # <<>>

\* r is a correct answer to find_closest_nodes(target_id, n) on the contacts all
ClosestOf(all, target_id, n, r) ==
    LET d(c) == calculate_distance(target_id, c.id)
    IN /\ Len(r) <= n
       /\ NoDuplicateIds(r)
       /\ \A i \in 1..(Len(r) - 1) : d(r[i]) <= d(r[i + 1])
       /\ Range(r) \subseteq Range(all)
       /\ Len(r) = n \/ Len(r) = Len(all)
       /\ \A c \in Range(all) \ Range(r) : \A i \in 1..Len(r) : d(r[i]) <= d(c)
       /\ all = <<>> => r = <<>>

\* find_closest_nodes(target_id, n) answers correctly on rt
FindsClosest(rt, target_id, n) ==
    \A all \in {get_all_nodes(rt)}, r \in {find_closest_nodes(rt, target_id, n)} :
        ClosestOf(all, target_id, n, r)

\* C8: find_closest_nodes(target, n) returns at most n contacts, without
\* duplicates, in non-decreasing XOR distance to the target, and they are the
\* n contacts of the whole table closest to the target (all of them when the
\* table holds fewer); on an empty table it returns the empty list.
C8_FindClosest ==
    /\ pc = "table"
         => \A target_id \in FindTargets, n \in 0..MaxK : FindsClosest(table, target_id, n)
    /\ \A id \in DOMAIN nodes :
         FindsClosest(nodes[id].routing_table, id, nodes[id].routing_table.k_value)
    /\ last.op = "find_closest_nodes"
         => ClosestOf(get_all_nodes(table), last.node_id, last.count, last.result)

\* find_closest_nodes returned fewer contacts than the table holds, and not the
\* first ones in bucket order
C8_Witness ==
    /\ last.op = "find_closest_nodes"
    /\ last.count >= 1
    /\ Len(last.result) = last.count
    /\ Len(get_all_nodes(table)) > last.count
    /\ last.result # Take(get_all_nodes(table), last.count)

\* C9: update returns true exactly when the id is a contact after the call;
\* for an id other than the own one whose bucket is not full it returns true.
C9_UpdateReturnsPresence ==
    /\ \A rt \in AllTables : \A node_id \in CallIds :
         \A r \in {update(rt, node_id, AddressOf(node_id), 0)} :
            /\ r.result <=> IsPresent(r.rt, node_id)
            /\ (/\ node_id # rt.node_id
                /\ Len(BucketFor(rt, node_id).nodes) < rt.k_value) => r.result
    /\ last.op = "update" => (last.result <=> IsPresent(table, last.node_id))

\* update inserted a new contact next to another one and returned true
C9_Witness ==
    /\ last.op = "update"
    /\ last.result
    /\ ~last.known
    /\ Len(BucketFor(table, last.node_id).nodes) >= 2

\* the entries of a contact list whose id is not node_id, in order
RECURSIVE Without(_, _)
Without(ns, node_id) ==
    IF ns = <<>> THEN <<>>
    ELSE (IF Head(ns).id = node_id THEN <<>> ELSE <<Head(ns)>>) \o Without(Tail(ns), node_id)

\* C10: add_node for a contact already in the bucket returns true and leaves
\* the other contacts in their order, followed by the contact with the new
\* address and last_seen; doing it again with the same id and address leaves
\* one entry for the id, at the tail.
C10_TouchMovesToTail ==
    /\ \A rt \in AllTables : \A b \in 1..Len(rt.buckets) :
         \A c \in Range(rt.buckets[b].nodes) :
            \A address \in CallAddresses, last_seen \in TableSeens :
               \A others \in {Without(rt.buckets[b].nodes, c.id)},
                  once \in {add_node(rt.buckets[b], c.id, address, last_seen)} :
                  /\ once.result
                  /\ once.bucket.nodes = Append(others, Contact(c.id, address, last_seen))
                  /\ \A again \in TableSeens :
                       \A twice \in {add_node(once.bucket, c.id, address, again)} :
                          /\ twice.result
                          /\ twice.bucket.nodes = Append(others, Contact(c.id, address, again))
    /\ (last.op = "update" /\ last.known)
         => LET ns == BucketFor(table, last.node_id).nodes
            IN /\ last.result
               /\ ns[Len(ns)].id = last.node_id
               /\ Cardinality({i \in 1..Len(ns) : ns[i].id = last.node_id}) = 1

\* update was called for a contact of a bucket that holds another contact too
C10_Witness ==
    /\ last.op = "update"
    /\ last.known
    /\ Len(BucketFor(table, last.node_id).nodes) >= 2

\* C11: add_node on a bucket that holds k_value contacts, for an id that is
\* not among them, returns false and leaves the bucket's contacts and their
\* order as they were; the same holds for update on the table.
C11_FullBucketDropsNew ==
    /\ \A rt \in AllTables : \A b \in 1..Len(rt.buckets) :
         Len(rt.buckets[b].nodes) = rt.k_value =>
            \A node_id \in TableIds, address \in CallAddresses, last_seen \in TableSeens :
               ~contains(rt.buckets[b], node_id) =>
                  add_node(rt.buckets[b], node_id, address, last_seen)
                     = [bucket |-> rt.buckets[b], result |-> FALSE]
    /\ (last.op = "update" /\ ~last.known /\ ~last.result /\ last.node_id # table.node_id)
         => /\ ~IsPresent(table, last.node_id)
            /\ Len(BucketFor(table, last.node_id).nodes) = table.k_value

\* update was refused for a new contact whose bucket holds two contacts
C11_Witness ==
    /\ last.op = "update"
    /\ ~last.known
    /\ ~last.result
    /\ last.node_id # table.node_id
    /\ Len(BucketFor(table, last.node_id).nodes) = 2

\* C12 as the specification words it: with k_value = 1, after an update the
\* bucket of the offered contact holds that contact and no other.
C12_KeepsMostRecent ==
    (pc = "table" /\ table.k_value = 1 /\ last.op = "update"
        /\ last.node_id # table.node_id)
      => \A ns \in {BucketFor(table, last.node_id).nodes} :
            Len(ns) = 1 /\ ns[1].id = last.node_id

\* C12 as the code has it: with k_value = 1 a bucket keeps the contact it
\* holds; an update with another id of the same bucket returns false and
\* changes nothing, an update with the held id refreshes that contact.
C12_KeepsFirst ==
    /\ \A rt \in AllTables : \A b \in 1..Len(rt.buckets) :
         (rt.k_value = 1 /\ rt.buckets[b].nodes # <<>>) =>
            \A node_id \in TableIds, last_seen \in TableSeens :
               (node_id # rt.node_id /\ get_bucket_index(rt.node_id, node_id) = b - 1) =>
                  \A r \in {update(rt, node_id, AddressOf(node_id), last_seen)} :
                     IF node_id = rt.buckets[b].nodes[1].id
                     THEN /\ r.result
                          /\ r.rt.buckets[b].nodes
                               = <<Contact(node_id, AddressOf(node_id), last_seen)>>
                     ELSE r = [rt |-> rt, result |-> FALSE]
    /\ (pc = "table" /\ table.k_value = 1 /\ last.op = "update" /\ ~last.known
          /\ ~last.result /\ last.node_id # table.node_id)
         => \A ns \in {BucketFor(table, last.node_id).nodes} :
               Len(ns) = 1 /\ ns[1].id # last.node_id

\* with k_value = 1, update was called for a new contact whose bucket holds
\* another contact
C12_Witness ==
    /\ pc = "table"
    /\ table.k_value = 1
    /\ last.op = "update"
    /\ ~last.known
    /\ last.node_id # table.node_id
    /\ Len(BucketFor(table, last.node_id).nodes) = 1
    /\ BucketFor(table, last.node_id).nodes[1].id # last.node_id

\* C13 as the test asserts it: join_network(seed) on an offline node with a
\* seed id other than its own marks the node online and makes exactly one
\* schedule_event call.
C13_JoinSchedulesOnce ==
    (last.op = "join_network" /\ ~last.before.is_online
        /\ last.arg # None /\ last.arg # NodeId)
      => nodes[NodeId].is_online /\ last.scheduled = 1

\* the send_message calls the last call on the node made
LastSends == SubSeq(sends, Len(sends) - last.sent + 1, Len(sends))

\* C14: join_network on an online node changes nothing and sends nothing; on
\* an offline node with a seed other than itself it marks the node online,
\* sends one FIND_NODE for its own id to the seed and records one pending
\* "join_network" request; with no seed or its own id as seed it only marks
\* the node online.
C14_JoinIdempotent ==
    last.op = "join_network" =>
        \A before \in {last.before}, node \in {nodes[NodeId]} :
           IF before.is_online
           THEN node = before /\ last.sent = 0 /\ last.scheduled = 0
           ELSE IF last.arg # None /\ last.arg # NodeId
           THEN /\ last.sent = 1
                /\ LastSends[1].type = "find_node"
                /\ LastSends[1].source_id = NodeId
                /\ LastSends[1].target_id = last.arg
                /\ LastSends[1].content = [target |-> to_hex(NodeId)]
                /\ \E t \in DOMAIN node.pending_responses :
                     /\ t \notin DOMAIN before.pending_responses
                     /\ t = LastSends[1].transaction_id
                     /\ node.pending_responses[t].type = "join_network"
                     /\ node = [before EXCEPT
                                  !.is_online = TRUE,
                                  !.pending_responses =
                                      DictPut(@, t, node.pending_responses[t])]
           ELSE /\ last.sent = 0
                /\ last.scheduled = 0
                /\ node = [before EXCEPT !.is_online = TRUE]

\* join_network(seed) was called on an online node that has a pending request
C14_Witness ==
    /\ last.op = "join_network"
    /\ last.before.is_online
    /\ last.arg = SeedId
    /\ DOMAIN last.before.pending_responses # {}

\* C15: while the node is offline, handle_message returns no response and
\* publish_file, retrieve_file and handle_message send nothing and leave the
\* node (routing table, file_providers, owned_files, pending requests) as it is.
C15_OfflineDoesNothing ==
    /\ (last.op \in {"handle_message", "publish_file", "retrieve_file"}
          /\ ~last.before.is_online)
         => /\ last.response = <<>>
            /\ last.err = NoError
            /\ last.sent = 0
            /\ last.scheduled = 0
            /\ nodes[NodeId] = last.before
    /\ (pc = "node" /\ ~nodes[NodeId].is_online)
         => \A w \in {World(<<>>)} :
               /\ \A message \in Incoming(nodes[NodeId]) :
                     handle_message(w, NodeId, message, clock) = Returns(w, <<>>)
               /\ publish_file(w, NodeId, FileId, clock) = w
               /\ retrieve_file(w, NodeId, FileId, clock) = w

\* publish_file was called on an offline node that has a contact
C15_Witness ==
    /\ last.op = "publish_file"
    /\ ~last.before.is_online
    /\ get_all_nodes(last.before.routing_table) # <<>>

\* C16: leave_network changes the online flag only, and a response to a
\* pending request that is handed to the offline node is discarded with the
\* pending record kept.
C16_LeaveKeepsPending ==
    /\ last.op = "leave_network"
         => /\ nodes[NodeId] = [last.before EXCEPT !.is_online = FALSE]
            /\ last.sent = 0
            /\ last.scheduled = 0
    /\ (/\ last.op = "handle_message"
        /\ ~last.before.is_online
        /\ last.arg.transaction_id \in DOMAIN last.before.pending_responses)
         => /\ last.response = <<>>
            /\ nodes[NodeId] = last.before
            /\ last.arg.transaction_id \in DOMAIN nodes[NodeId].pending_responses

\* after a leave, the response to a request still pending was handed to the
\* offline node
C16_Witness ==
    /\ last.op = "handle_message"
    /\ ~last.before.is_online
    /\ last.arg.transaction_id \in DOMAIN last.before.pending_responses
    /\ get_all_nodes(last.before.routing_table) # <<>>

\* the run of main() is over: run() returned or an exception ended it
RunOver == pc \in {"done", "crashed"}

\* the records of file_id that node holds list address as a provider
HasProvider(node, file_id, address) ==
    /\ file_id \in DOMAIN node.file_providers
    /\ \E i \in 1..Len(node.file_providers[file_id]) :
          node.file_providers[file_id][i].address = address

\* C17: seed-only publish and retrieve with no packet lost: when the run is
\* over, A's owned_files contains F and the seed's file_providers[F] lists
\* A's address.
C17_SeedHoldsProvider ==
    (config.events_file = "seed_only" /\ RunOver)
        => /\ FileId \in nodes[PeerA].owned_files
           /\ HasProvider(nodes[SeedId], FileId, AddressOf(PeerA))

\* C18: two-hop retrieve with no packet lost: when the run is over, B's
\* file_providers[F] lists A's address.
C18_RetrieverLearnsProvider ==
    (config.events_file = "two_hop" /\ RunOver)
        => HasProvider(nodes[PeerB], FileId, AddressOf(PeerA))

\* C19: B has PINGed the offline contact A: once (MAX_RETRIES + 1) timeouts of
\* 20 ticks have passed since the PING and the run is over, A is absent from
\* B's routing table and B holds no pending PING.
C19_PingTimeoutEvicts ==
    (/\ config.events_file = "ping_timeout"
     /\ RunOver
     /\ \E i \in 1..Len(sends) :
           /\ sends[i].type = "ping"
           /\ sends[i].source_id = PeerB
           /\ sends[i].target_id = PeerA
           /\ ~nodes[PeerA].is_online
           /\ clock - sends[i].send_time >= (MAX_RETRIES + 1) * 20)
        => /\ ~IsPresent(nodes[PeerB].routing_table, PeerA)
           /\ \A t \in DOMAIN nodes[PeerB].pending_responses :
                 nodes[PeerB].pending_responses[t].type # "ping"

\* C21: a retrieve of a file no node has a provider record for, no packet
\* lost, causes finitely many FIND_VALUE messages and the queue empties: the
\* main loop of run() ends with no event left, whatever max_time is.
C21_LookupDrains ==
    (config.events_file = "lookup" /\ pc = "end") => queue = <<>>

\* the popped entries run() handed to _process_event that are SIMULATION_END
EndsDispatched ==
    {i \in 1..Len(popped) : popped[i].processed /\ popped[i].type = "SIMULATION_END"}

C24_UnknownEndpointIgnored ==
    (/\ last.op = "send_message"
     /\ \/ last.arg.target_id \notin DOMAIN nodes
        \/ last.arg.source_id \notin DOMAIN nodes)
        => (last.scheduled = 0 /\ last.err = NoError)

\* the last call was publish_file or retrieve_file on the node while it was
\* online with an empty routing table
FileCallOnEmptyTable ==
    /\ last.op \in {"publish_file", "retrieve_file"}
    /\ last.before.is_online
    /\ get_all_nodes(last.before.routing_table) = <<>>

\* C25 as stated: on an online node whose routing table is empty, publish and
\* retrieve send no message and leave the whole node state unchanged.
C25_EmptyTableNoChange ==
    FileCallOnEmptyTable => (last.sent = 0 /\ nodes[NodeId] = last.before)

\* C25, amended: on an online node whose routing table is empty, publish and
\* retrieve send no message and schedule no event; retrieve leaves the whole
\* node state unchanged, publish adds the file to owned_files and changes
\* nothing else.
C25_EmptyTableSendsNothing ==
    FileCallOnEmptyTable
        => /\ last.sent = 0
           /\ last.scheduled = 0
           /\ last.err = NoError
           /\ nodes[NodeId] =
                 [last.before EXCEPT !.owned_files =
                     IF last.op = "publish_file" THEN @ \cup {last.arg} ELSE @]

\* a file the node did not own was published with the routing table empty
C25_Witness ==
    /\ FileCallOnEmptyTable
    /\ last.op = "publish_file"
    /\ last.arg \notin last.before.owned_files
    /\ last.arg \in nodes[NodeId].owned_files

\* the contacts of the sequence all that the sends in new are addressed to
Addressed(all, new) ==
    [i \in 1..Len(new) |-> CHOOSE c \in Range(all) : c.id = new[i].target_id]

\* C26: retrieve(file) on an online node that owns the file sends nothing and
\* changes nothing; otherwise it sends one FIND_VALUE for the file to each of
\* the at most k contacts of its routing table closest to the file id, and
\* records one pending find-value request per message, changing nothing else.
C26_RetrieveAsksClosest ==
    (last.op = "retrieve_file" /\ last.before.is_online) =>
        \A before \in {last.before}, node \in {nodes[NodeId]}, new \in {LastSends} :
           IF last.arg \in before.owned_files
           THEN new = <<>> /\ last.scheduled = 0 /\ node = before
           ELSE \A all \in {get_all_nodes(before.routing_table)} :
                /\ \A i \in 1..Len(new) :
                      /\ new[i].type = "find_value"
                      /\ new[i].source_id = NodeId
                      /\ new[i].content = [key |-> to_hex(last.arg)]
                      /\ \E c \in Range(all) : c.id = new[i].target_id
                      /\ new[i].transaction_id \notin DOMAIN before.pending_responses
                      /\ new[i].transaction_id \in DOMAIN node.pending_responses
                      /\ node.pending_responses[new[i].transaction_id].type = "find_value"
                      /\ node.pending_responses[new[i].transaction_id].data.file_id = last.arg
                      /\ \A j \in 1..Len(new) :
                            new[j].transaction_id = new[i].transaction_id => j = i
                /\ ClosestOf(all, last.arg, before.routing_table.k_value,
                             Addressed(all, new))
                /\ DOMAIN node.pending_responses =
                      DOMAIN before.pending_responses
                        \cup {new[i].transaction_id : i \in 1..Len(new)}
                /\ node = [before EXCEPT !.pending_responses =
                              [t \in DOMAIN node.pending_responses |->
                                  IF t \in DOMAIN before.pending_responses
                                  THEN before.pending_responses[t]
                                  ELSE node.pending_responses[t]]]

\* retrieve was called for a file the node does not own while its routing
\* table held more than k contacts, the seed not among the k closest
C26_Witness ==
    /\ last.op = "retrieve_file"
    /\ last.before.is_online
    /\ last.arg \notin last.before.owned_files
    /\ Len(get_all_nodes(last.before.routing_table)) > last.before.routing_table.k_value
    /\ last.sent = last.before.routing_table.k_value
    /\ \A i \in 1..Len(LastSends) : LastSends[i].target_id # SeedId

\* the provider records the message offers the node: the provider of a
\* STORE, seen at its delivery, or the providers of a found
\* FIND_VALUE_RESPONSE
Offered(message) ==
    IF message.type = "store"
    THEN <<[address |-> from_hex(message.content.provider),
            last_seen |-> message.delivery_time]>>
    ELSE [i \in 1..Len(message.content.providers) |->
             [address |-> from_hex(message.content.providers[i].address),
              last_seen |-> message.content.providers[i].last_seen]]

\* the last call handed the online node a STORE, or a found
\* FIND_VALUE_RESPONSE to one of its pending find-value requests
ProvidersOffered ==
    /\ last.op = "handle_message"
    /\ last.before.is_online
    /\ \/ last.arg.type = "store"
       \/ /\ last.arg.type = "find_value_response"
          /\ last.arg.content.found
          /\ last.arg.transaction_id \in DOMAIN last.before.pending_responses
          /\ last.before.pending_responses[last.arg.transaction_id].type = "find_value"

\* the records of file_id in file_providers, none when it has no entry
ProvidersOf(file_providers, file_id) ==
    IF file_id \in DOMAIN file_providers THEN file_providers[file_id] ELSE <<>>

\* new is old after the offered records: recorded addresses keep their place
\* and are refreshed, new addresses follow at the end
RefreshedInPlace(old, new, offered) ==
    LET addresses == {offered[i].address : i \in 1..Len(offered)}
    IN /\ Len(new) >= Len(old)
       /\ \A j \in 1..Len(old) :
             /\ new[j].address = old[j].address
             /\ old[j].address \notin addresses => new[j] = old[j]
       /\ \A j \in 1..Len(new) :
             /\ new[j].address \in addresses =>
                   \E i \in 1..Len(offered) : new[j] = offered[i]
             /\ j > Len(old) => new[j].address \in addresses
       /\ \A a \in addresses : \E j \in 1..Len(new) : new[j].address = a

\* C27: file_providers[file] never holds two records of one provider
\* address: a STORE or a found FIND_VALUE_RESPONSE for a recorded address
\* sets that record's last_seen in place, the number and order of the records
\* unchanged, and a new address is appended.
C27_OneRecordPerProvider ==
    /\ \A id \in DOMAIN nodes : \A f \in DOMAIN nodes[id].file_providers :
          \A i, j \in 1..Len(nodes[id].file_providers[f]) :
             nodes[id].file_providers[f][i].address = nodes[id].file_providers[f][j].address
                => i = j
    /\ ProvidersOffered =>
          RefreshedInPlace(ProvidersOf(last.before.file_providers, FileId),
                           ProvidersOf(nodes[NodeId].file_providers, FileId),
                           Offered(last.arg))

\* a STORE refreshed the first of two provider records, which kept its place
C27_Witness ==
    /\ ProvidersOffered
    /\ last.arg.type = "store"
    /\ Len(ProvidersOf(last.before.file_providers, FileId)) = 2
    /\ ProvidersOf(last.before.file_providers, FileId)[1].address = Offered(last.arg)[1].address
    /\ ProvidersOf(last.before.file_providers, FileId)[1].last_seen # last.arg.delivery_time
    /\ ProvidersOf(nodes[NodeId].file_providers, FileId)[1] = Offered(last.arg)[1]

\* the node an event is addressed to: the target of a delivered message, the
\* node of a scenario event, None for the other events
Addressee(event) ==
    IF event.type = "MESSAGE_RECEIVED" THEN from_dict(event.params.message).target_id
    ELSE IF event.type \in {"NODE_JOIN", "NODE_LEAVE", "FILE_PUBLISH", "FILE_RETRIEVE"}
    THEN event.params.node_id
    ELSE None

\* a step of run() that leaves every node as it was, but the one the event
\* at the head of the queue is addressed to
IsolatedStep ==
    pc \in {"loop", "drain", "end", "final"} =>
        \A id \in DOMAIN nodes :
           (queue = <<>> \/ id # Addressee(Head(queue)[3]))
              => (id \in DOMAIN nodes' /\ nodes'[id] = nodes[id])

\* C28: while run() dispatches, a step changes the state of no node other
\* than the one the event at the head of the queue is addressed to; a node
\* to which nothing is delivered keeps its routing table, file_providers,
\* owned_files, pending table and online flag.
C28_NodeIsolation == [][IsolatedStep]_vars

\* a message was delivered to one of three registered nodes and left a
\* contact in its routing table
C28_Witness ==
    /\ Cardinality(DOMAIN nodes) = 3
    /\ \E i \in 1..Len(handled) :
          /\ handled[i].message.type = "find_node"
          /\ IsPresent(nodes[handled[i].node].routing_table, handled[i].message.source_id)
          /\ \E id \in DOMAIN nodes : get_all_nodes(nodes[id].routing_table) = <<>>

\* C29: when the computed packet-loss rate is 1.0 for every send, no
\* MESSAGE_RECEIVED event is ever scheduled and no node's handle_message is
\* ever called: every send to a registered node is dropped.
C29_FullLossDeliversNothing ==
    /\ \A i \in 1..Len(queue) : queue[i][3].type # "MESSAGE_RECEIVED"
    /\ \A i \in 1..Len(popped) : popped[i].type # "MESSAGE_RECEIVED"
    /\ handled = <<>>
    /\ \A i \in 1..Len(sends) : sends[i].outcome \in {"dropped", "ignored"}

\* a message was sent while random() was at the top of its range, and lost
C29_Witness ==
    /\ pc = "done"
    /\ \E i \in 1..Len(sends) : sends[i].outcome = "dropped"
    /\ drawn > 0
    /\ rng[1].u = 999
    /\ rng[1].variation < 0

\* the contacts a node list names
Listed(node_list) ==
    [i \in 1..Len(node_list) |-> from_hex(node_list[i].id)]

\* C30: the response to a FIND_NODE request lists at most k contacts, they
\* are the contacts of the receiver's routing table closest to the requested
\* target, and the node that sent the request is not among them.
C30_FindNodeOmitsSender ==
    (/\ last.op = "handle_message"
     /\ last.before.is_online
     /\ last.arg.type = "find_node")
        => /\ Len(last.response) = 1
           /\ last.response[1].type = "find_node_response"
           /\ \A rt \in {nodes[NodeId].routing_table} :
                 last.response[1].content.nodes =
                     NodeList(find_closest_nodes(rt, from_hex(last.arg.content.target),
                                                 rt.k_value))
                 /\ FindsClosest(rt, from_hex(last.arg.content.target), rt.k_value)
           /\ \A i \in 1..Len(last.response[1].content.nodes) :
                 Listed(last.response[1].content.nodes)[i] # last.arg.source_id

\* the last call handed the online node a PONG
PongHandled ==
    /\ last.op = "handle_message"
    /\ last.before.is_online
    /\ last.arg.type = "pong"

\* the PONG of the last call answers one of the node's pending PINGs
PongMatches ==
    /\ last.arg.transaction_id \in DOMAIN last.before.pending_responses
    /\ last.before.pending_responses[last.arg.transaction_id].type = "ping"

\* C31: an online node that handles a PONG matching one of its pending PING
\* records returns normally, the record removed and the routing-table entry
\* of the PONG's source seen at the PONG's delivery time; a PONG matching no
\* pending record changes no pending record.
C31_PongClearsPending ==
    PongHandled =>
        IF PongMatches
        THEN /\ last.err = NoError
             /\ DOMAIN nodes[NodeId].pending_responses =
                   DOMAIN last.before.pending_responses \ {last.arg.transaction_id}
             /\ \E c \in Range(get_all_nodes(nodes[NodeId].routing_table)) :
                   c.id = last.arg.source_id /\ c.last_seen = last.arg.delivery_time
        ELSE /\ last.err = NoError
             /\ nodes[NodeId].pending_responses = last.before.pending_responses

\* the last call handed the node a tick on which it checks its pending PINGs
TickChecked ==
    /\ last.op = "handle_event"
    /\ last.arg - last.before.last_check_time >= 100

\* the pending PINGs of the node, before the last call, whose timeout had
\* elapsed at time now
Elapsed(now) ==
    {t \in DOMAIN last.before.pending_responses :
        /\ last.before.pending_responses[t].type = "ping"
        /\ now - last.before.pending_responses[t].time >= PING_TIMEOUT}

\* those of them that had retries left, and the targets of the others
Retried(now) ==
    {t \in Elapsed(now) : last.before.pending_responses[t].retry_count < MAX_RETRIES}

GivenUp(now) ==
    {last.before.pending_responses[t].target_id : t \in Elapsed(now) \ Retried(now)}

\* the contacts of the sequence all but those with an id in ids
Except(all, ids) == SelectSeq(all, LAMBDA c : c.id \notin ids)

\* C32: on a tick that checks the pending PINGs, a PING whose timeout has
\* elapsed and that has been retried less than MAX_RETRIES times gets
\* retry_count + 1 and the current time as its send time, and one PING
\* carrying the new retry_count is sent to its target; one that has been
\* retried MAX_RETRIES times is dropped and its target removed from the
\* routing table; nothing else changes in the pending table or the routing
\* table.  No record and no PING ever carries a retry_count above MAX_RETRIES.
C32_PingTimeoutRetries ==
    /\ \A t \in DOMAIN nodes[NodeId].pending_responses :
          nodes[NodeId].pending_responses[t].type = "ping"
             => nodes[NodeId].pending_responses[t].retry_count \in 0..MAX_RETRIES
    /\ \A i \in 1..Len(sends) :
          sends[i].type = "ping" => sends[i].content.retry_count \in 0..MAX_RETRIES
    /\ TickChecked =>
          \A now \in {last.arg}, before \in {last.before.pending_responses},
             after \in {nodes[NodeId].pending_responses}, new \in {LastSends} :
             /\ last.err = NoError
             /\ DOMAIN after = DOMAIN before \ (Elapsed(now) \ Retried(now))
             /\ \A t \in DOMAIN after :
                   after[t] = IF t \in Retried(now)
                              THEN [before[t] EXCEPT !.retry_count = @ + 1, !.time = now]
                              ELSE before[t]
             /\ Len(new) = Cardinality(Retried(now))
             /\ \A t \in Retried(now) : \E i \in 1..Len(new) :
                   /\ new[i].type = "ping"
                   /\ new[i].source_id = NodeId
                   /\ new[i].target_id = before[t].target_id
                   /\ new[i].content.retry_count = before[t].retry_count + 1
                   /\ new[i].send_time = now
             /\ get_all_nodes(nodes[NodeId].routing_table) =
                   Except(get_all_nodes(last.before.routing_table), GivenUp(now))

\* a PING that had been re-sent MAX_RETRIES times timed out once more while
\* its target was in the routing table, and the target was removed
C32_Witness ==
    /\ pc = "ping"
    /\ TickChecked
    /\ \E t \in Elapsed(last.arg) \ Retried(last.arg) :
          /\ IsPresent(last.before.routing_table, last.before.pending_responses[t].target_id)
          /\ ~IsPresent(nodes[NodeId].routing_table,
                        last.before.pending_responses[t].target_id)
    /\ Cardinality({i \in 1..Len(sends) :
                       sends[i].type = "ping" /\ sends[i].content.retry_count > 0})
          >= MAX_RETRIES

\* the pending PINGs of the node, before the last call, to the source of the
\* message handed to it
PingsToSource ==
    {t \in DOMAIN last.before.pending_responses :
        /\ last.before.pending_responses[t].type = "ping"
        /\ last.before.pending_responses[t].target_id = last.arg.source_id}

\* C39: when the one pending PING to a target has been re-sent and the
\* target's PONG to the latest re-send is handed to the node before that
\* re-send times out, the pending record is removed, so that no later timeout
\* evicts the target because of that PING.
C39_PongAfterRetryClears ==
    (/\ pc = "ping"
     /\ PongHandled
     /\ last.arg.content.retry_count > 0
     /\ Cardinality(PingsToSource) = 1
     /\ \A t \in PingsToSource :
           /\ last.before.pending_responses[t].retry_count = last.arg.content.retry_count
           /\ last.arg.delivery_time - last.before.pending_responses[t].time < PING_TIMEOUT)
        => \A t \in PingsToSource : t \notin DOMAIN nodes[NodeId].pending_responses

\* the last call handed the online node a FIND_NODE_RESPONSE to one of its
\* pending requests of the given kind
NodesAnswered(kind) ==
    /\ last.op = "handle_message"
    /\ last.before.is_online
    /\ last.arg.type = "find_node_response"
    /\ last.arg.transaction_id \in DOMAIN last.before.pending_responses
    /\ last.before.pending_responses[last.arg.transaction_id].type = kind

\* the contacts a node list names, the node itself left out
OthersListed(node_list) == SelectSeq(Listed(node_list), LAMBDA id : id # NodeId)

\* C33: publish(file) on an online node adds the file to owned_files and
\* sends one FIND_NODE for the file id to each of the at most k contacts
\* closest to it, recording a pending store request for each; a
\* FIND_NODE_RESPONSE matching such a request makes the node send one STORE
\* carrying the file id and its own address to every listed contact other
\* than itself, and one matching the join request makes it send one PING to
\* every listed contact other than itself.
C33_PublishStoresAtListed ==
    /\ (pc = "node" /\ last.op = "publish_file" /\ last.before.is_online) =>
          \A node \in {nodes[NodeId]}, new \in {LastSends},
             all \in {get_all_nodes(last.before.routing_table)} :
             /\ node.owned_files = last.before.owned_files \cup {last.arg}
             /\ \A i \in 1..Len(new) :
                   /\ new[i].type = "find_node"
                   /\ new[i].source_id = NodeId
                   /\ new[i].content = [target |-> to_hex(last.arg)]
                   /\ \E c \in Range(all) : c.id = new[i].target_id
                   /\ new[i].transaction_id \notin DOMAIN last.before.pending_responses
                   /\ new[i].transaction_id \in DOMAIN node.pending_responses
                   /\ node.pending_responses[new[i].transaction_id].type = "store_file"
                   /\ node.pending_responses[new[i].transaction_id].data.file_id = last.arg
             /\ ClosestOf(all, last.arg, last.before.routing_table.k_value,
                          Addressed(all, new))
    /\ (pc = "node" /\ (NodesAnswered("store_file") \/ NodesAnswered("join_network"))) =>
          \A new \in {LastSends}, others \in {OthersListed(last.arg.content.nodes)},
             info \in {last.before.pending_responses[last.arg.transaction_id]} :
             /\ last.err = NoError
             /\ Len(new) = Len(others)
             /\ \A i \in 1..Len(new) :
                   /\ new[i].source_id = NodeId
                   /\ new[i].target_id = others[i]
                   /\ new[i].send_time = last.arg.delivery_time
                   /\ IF info.type = "store_file"
                      THEN /\ new[i].type = "store"
                           /\ new[i].content =
                                 [key |-> to_hex(info.data.file_id),
                                  provider |-> to_hex(last.before.address)]
                      ELSE new[i].type = "ping"

\* a FIND_NODE_RESPONSE to a store request listed the node itself among other
\* contacts, and a STORE went to each of the others
C33_Witness ==
    /\ pc = "node"
    /\ NodesAnswered("store_file")
    /\ \E i \in 1..Len(last.arg.content.nodes) :
          Listed(last.arg.content.nodes)[i] = NodeId
    /\ last.sent = Len(last.arg.content.nodes) - 1
    /\ last.sent > 1
    /\ \A i \in 1..Len(LastSends) : LastSends[i].type = "store"

\* the last call handed the online node a FIND_VALUE request
FindValueHandled ==
    /\ pc = "node"
    /\ last.op = "handle_message"
    /\ last.before.is_online
    /\ last.arg.type = "find_value"

\* C34: an online node handed FIND_VALUE(key) answers found = true with all
\* its provider records of key, in order, exactly when file_providers has an
\* entry for key, and otherwise found = false with the at most k contacts of
\* its routing table closest to key; file_providers is left as it was.
C34_FindValueAnswer ==
    FindValueHandled =>
        \A key \in {from_hex(last.arg.content.key)}, node \in {nodes[NodeId]} :
           /\ last.err = NoError
           /\ node.file_providers = last.before.file_providers
           /\ Len(last.response) = 1
           /\ last.response[1].type = "find_value_response"
           /\ last.response[1].source_id = NodeId
           /\ last.response[1].target_id = last.arg.source_id
           /\ last.response[1].transaction_id = last.arg.transaction_id
           /\ last.response[1].content.key = last.arg.content.key
           /\ last.response[1].content.found = (key \in DOMAIN node.file_providers)
           /\ IF key \in DOMAIN node.file_providers
              THEN /\ node.file_providers[key] # <<>>
                   /\ DOMAIN last.response[1].content = {"found", "key", "providers"}
                   /\ Len(last.response[1].content.providers) = Len(node.file_providers[key])
                   /\ \A i \in 1..Len(node.file_providers[key]) :
                         /\ from_hex(last.response[1].content.providers[i].address) =
                               node.file_providers[key][i].address
                         /\ last.response[1].content.providers[i].last_seen =
                               node.file_providers[key][i].last_seen
              ELSE /\ DOMAIN last.response[1].content = {"found", "key", "nodes"}
                   /\ Len(last.response[1].content.nodes) <= node.routing_table.k_value
                   /\ \A all \in {get_all_nodes(node.routing_table)} :
                         /\ \A i \in 1..Len(last.response[1].content.nodes) :
                               \E c \in Range(all) :
                                  /\ c.id = Listed(last.response[1].content.nodes)[i]
                                  /\ to_hex(c.address) =
                                        last.response[1].content.nodes[i].address
                         /\ ClosestOf(all, key, node.routing_table.k_value,
                                      [i \in 1..Len(last.response[1].content.nodes) |->
                                          CHOOSE c \in Range(all) :
                                             c.id = Listed(last.response[1].content.nodes)[i]])

\* FIND_VALUE was answered with two provider records
C34_Witness ==
    /\ FindValueHandled
    /\ Len(last.response) = 1
    /\ last.response[1].content.found
    /\ Len(last.response[1].content.providers) = 2

\* the queue entry numbered ctr was popped after an entry that delivered the
\* message request
PoppedAfter(ctr, request) ==
    \A k \in 1..Len(popped) :
        popped[k].ctr = ctr =>
            \E j \in 1..Len(handled), i \in 1..(k - 1) :
               /\ handled[j].message = request
               /\ popped[i].ctr = handled[j].ctr
               /\ popped[i].type = "MESSAGE_RECEIVED"

\* the time of the queue entry numbered ctr, queued or popped
TimesOf(ctr) ==
    {queue[i][1] : i \in {j \in 1..Len(queue) : queue[j][2] = ctr}}
    \cup {popped[i].time : i \in {j \in 1..Len(popped) : popped[j].ctr = ctr}}

\* C35: the MESSAGE_RECEIVED event of a response is scheduled only once the
\* request it answers has been delivered and handled, it is dispatched after
\* the request's event, and its delivery time is at least the request's
\* delivery time plus min_delay, hence later.
C35_ResponseAfterRequest ==
    \A ctr \in DOMAIN origin :
       /\ \E j \in 1..Len(handled) :
             /\ handled[j].message = origin[ctr]
             /\ handled[j].ctr < ctr
             /\ \E i \in 1..Len(popped) : popped[i].ctr = handled[j].ctr
       /\ PoppedAfter(ctr, origin[ctr])
       /\ TimesOf(ctr) # {}
       /\ \A time \in TimesOf(ctr) :
             /\ time >= origin[ctr].delivery_time + MinDelay
             /\ time > origin[ctr].delivery_time

\* a response was delivered exactly min_delay after its request
C35_Witness ==
    \E k \in 1..Len(handled) :
        /\ handled[k].ctr \in DOMAIN origin
        /\ handled[k].message.delivery_time =
              origin[handled[k].ctr].delivery_time + MinDelay
        /\ \E i \in 1..Len(popped) : popped[i].ctr = handled[k].ctr

\* the queue entries the i-th send_message call scheduled: nothing but
\* send_message schedules while a node is called directly, so they are those
\* numbered from the call's counter up to the next call's
ScheduledBy(i) ==
    LET next == IF i < Len(sends) THEN sends[i + 1].ctr ELSE counter
    IN SelectSeq(queue, LAMBDA entry : entry[2] >= sends[i].ctr /\ entry[2] < next)

\* the message the i-th send_message call was given, stamped with its send
\* time and, when delivered, its delivery time
Stamped(i, delivery_time) ==
    [Message(sends[i].type, sends[i].source_id, sends[i].target_id, sends[i].content,
             sends[i].transaction_id)
        EXCEPT !.send_time = sends[i].send_time, !.delivery_time = delivery_time]

\* C36: a send_message call between two registered nodes either loses the
\* message, scheduling no MESSAGE_RECEIVED and emitting no MESSAGE_SENT, with
\* one MESSAGE_DROPPED event at send_time + delay / 2 if it is a FIND_NODE or
\* FIND_VALUE and no event otherwise; or it schedules exactly one event, a
\* MESSAGE_RECEIVED at delivery_time = send_time + delay carrying the
\* message, and emits one MESSAGE_SENT; min_delay <= delay <= max_delay.
C36_SendDropsOrDelivers ==
    pc = "node" =>
        \A i \in 1..Len(sends) :
           (sends[i].source_id \in DOMAIN nodes /\ sends[i].target_id \in DOMAIN nodes) =>
              \A events \in {ScheduledBy(i)} :
                 /\ sends[i].delay >= MinDelay
                 /\ sends[i].delay <= MaxDelay
                 /\ \/ /\ sends[i].outcome = "dropped"
                       /\ sends[i].sent_events = 0
                       /\ IF sends[i].type \in {"find_node", "find_value"}
                          THEN /\ Len(events) = 1
                               /\ events[1][1] = sends[i].send_time + (sends[i].delay \div 2)
                               /\ events[1][3].type = "MESSAGE_DROPPED"
                               /\ events[1][3].time = events[1][1]
                               /\ from_dict(events[1][3].params.message) = Stamped(i, NoTime)
                          ELSE events = <<>>
                    \/ /\ sends[i].outcome = "received"
                       /\ sends[i].sent_events = 1
                       /\ Len(events) = 1
                       /\ events[1][1] = sends[i].send_time + sends[i].delay
                       /\ events[1][3].type = "MESSAGE_RECEIVED"
                       /\ events[1][3].time = events[1][1]
                       /\ from_dict(events[1][3].params.message) =
                             Stamped(i, sends[i].send_time + sends[i].delay)

\* a PING and a FIND_NODE were lost and another message was delivered
C36_Witness ==
    /\ pc = "node"
    /\ \E i, j, k \in 1..Len(sends) :
          /\ sends[i].outcome = "dropped" /\ sends[i].type = "ping"
          /\ ScheduledBy(i) = <<>>
          /\ sends[j].outcome = "dropped" /\ sends[j].type = "find_node"
          /\ Len(ScheduledBy(j)) = 1
          /\ sends[k].outcome = "received"

\* the last call handed the online node a message of another node whose
\* bucket had room for the sender or held it already
SenderFits ==
    /\ pc = "node"
    /\ last.op = "handle_message"
    /\ last.before.is_online
    /\ last.arg.source_id # NodeId
    /\ \A b \in {BucketFor(last.before.routing_table, last.arg.source_id)} :
          Len(b.nodes) < b.k_value \/ contains(b, last.arg.source_id)

\* the node list the node goes through while handling the message of the
\* last call: that of a FIND_NODE_RESPONSE to a pending request, or of a
\* not-found FIND_VALUE_RESPONSE to a pending find-value request; empty for
\* every other message
ListFollowed ==
    IF last.arg.transaction_id \notin DOMAIN last.before.pending_responses THEN <<>>
    ELSE IF last.arg.type = "find_node_response" THEN last.arg.content.nodes
    ELSE IF /\ last.arg.type = "find_value_response"
            /\ last.before.pending_responses[last.arg.transaction_id].type = "find_value"
            /\ ~last.arg.content.found
    THEN last.arg.content.nodes
    ELSE <<>>

\* C37 as stated: after an online node handled a message of any type from
\* another node whose bucket was not full or held the sender, the sender is
\* the tail of its bucket, its address the sender's id and its last_seen the
\* message's delivery time.
C37_SenderAtTail ==
    SenderFits =>
        \A ns \in {BucketFor(nodes[NodeId].routing_table, last.arg.source_id).nodes} :
           /\ ns # <<>>
           /\ ns[Len(ns)] = Contact(last.arg.source_id, last.arg.source_id,
                                    last.arg.delivery_time)

\* C37, amended: after such a message the sender is in its bucket, once, seen
\* at the message's delivery time.  It is the tail, its address the sender's
\* id, unless the node went through a node list while handling the message:
\* the contacts behind the sender are then contacts of that list, and the
\* sender's address is its id or the address the list gives for it.
C37_SenderRecorded ==
    SenderFits =>
        \A ns \in {BucketFor(nodes[NodeId].routing_table, last.arg.source_id).nodes},
           listed \in {ListFollowed} :
           /\ Cardinality({i \in 1..Len(ns) : ns[i].id = last.arg.source_id}) = 1
           /\ \A i \in 1..Len(ns) :
                 ns[i].id = last.arg.source_id =>
                    /\ ns[i].last_seen = last.arg.delivery_time
                    /\ \/ ns[i].address = last.arg.source_id
                       \/ \E n \in 1..Len(listed) :
                             /\ from_hex(listed[n].id) = ns[i].id
                             /\ from_hex(listed[n].address) = ns[i].address
                    /\ \A j \in (i + 1)..Len(ns) :
                          \E n \in 1..Len(listed) :
                             ns[j] = Contact(from_hex(listed[n].id),
                                             from_hex(listed[n].address),
                                             last.arg.delivery_time)
           /\ listed = <<>> =>
                 ns[Len(ns)] = Contact(last.arg.source_id, last.arg.source_id,
                                       last.arg.delivery_time)

\* the node handled a response whose list named a contact of the sender's
\* bucket, which now stands behind the sender
C37_Witness ==
    /\ SenderFits
    /\ ListFollowed # <<>>
    /\ \A ns \in {BucketFor(nodes[NodeId].routing_table, last.arg.source_id).nodes} :
          /\ Len(ns) >= 2
          /\ ns[Len(ns) - 1].id = last.arg.source_id
          /\ ns[Len(ns) - 1].address = last.arg.source_id
          /\ ns[Len(ns)].id # last.arg.source_id

\* the last call handed the online node a response under a transaction id it
\* has no pending record for
StrayHandled ==
    /\ pc = "node"
    /\ last.op = "handle_message"
    /\ last.before.is_online
    /\ last.arg.type \in {"pong", "find_node_response", "find_value_response",
                          "store_response"}
    /\ last.arg.transaction_id \notin DOMAIN last.before.pending_responses

\* C38: handling a PONG, FIND_NODE_RESPONSE, FIND_VALUE_RESPONSE or
\* STORE_RESPONSE whose transaction id is in no pending record raises no
\* error, returns no message, sends nothing and leaves the pending table,
\* file_providers and owned_files as they were.
C38_StrayResponseIgnored ==
    StrayHandled =>
        /\ last.err = NoError
        /\ last.response = <<>>
        /\ last.sent = 0
        /\ last.scheduled = 0
        /\ nodes[NodeId].pending_responses = last.before.pending_responses
        /\ nodes[NodeId].file_providers = last.before.file_providers
        /\ nodes[NodeId].owned_files = last.before.owned_files

\* a FIND_VALUE_RESPONSE naming a provider was handed to the node while it
\* was waiting for other answers only
C38_Witness ==
    /\ StrayHandled
    /\ last.arg.type = "find_value_response"
    /\ last.arg.content.found
    /\ DOMAIN last.before.pending_responses # {}
    /\ FileId \notin DOMAIN nodes[NodeId].file_providers

\* C40: no node ever hands send_message a message whose target is the node
\* itself.
C40_NoSelfSend ==
    \A i \in 1..Len(sends) : sends[i].source_id # sends[i].target_id

\* C23: two independent runs with the same seed and the same scenario go
\* through the same events, messages (transaction ids included) and node
\* states.
C23_SameSeedSameTrace ==
    /\ queue = twin.queue
    /\ sends = twin.sends
    /\ handled = twin.handled
    /\ nodes = twin.nodes

\* C20: no exception raised while a node handles a message ends run(): the
\* main loop never stops on an error, and handling a PONG raises none.
C20_RunNeverAborts == pc # "crashed"

====
